---------------------------- MODULE Spec2Model ----------------------------
(***************************************************************************)
(* futures-time: time-based combinators over streams and futures.          *)
(*                                                                         *)
(* Time is a discrete clock `now`.  A combinator is polled by one consumer *)
(* task; the wrapped stream / future is the environment, which produces    *)
(* its items at moments of its own choosing.  The reactor's timer table    *)
(* and the stream's waker slot are modelled in `waker`, so that both       *)
(* arbitrary polling and wake-driven polling can be specified.             *)
(***************************************************************************)
EXTENDS Integers, Naturals, Sequences, FiniteSets, TLC

VARIABLES
    now,        \* the clock (Instant::now())
    stream,     \* the wrapped stream S, its items numbered in arrival order
    waker,      \* the task's waker: woken flag and where it is registered
    last,       \* result of the most recent poll of the combinator
    out,        \* every Ready result the combinator has returned, with its time
    debounce,   \* struct Debounce
    throttle,   \* struct Throttle (with its Interval)
    future,     \* the wrapped future F
    ftimeout,   \* future Timeout / TimeoutAt
    stimeout,   \* stream Timeout / TimeoutAt / TimeoutOnce
    intervalStream, \* struct Interval
    fdelay,     \* future Delay / DelayUntil
    sdelay,     \* stream Delay / DelayUntil
    park,       \* future Park with its token receiver
    parker,     \* the Parker / Unparker pair with its channel
    buffer,     \* struct Buffer (with its interval stream)
    ghost       \* history: what the combinator consumed and observed

vars == <<now, stream, waker, last, out, debounce, throttle, future, ftimeout, stimeout,
          intervalStream, fdelay, sdelay, park, parker, buffer, ghost>>

----------------------------------------------------------------------------
(* Bounds of the model. *)

\* most items a source produces
MaxItems == 3
\* largest duration handed to a combinator (boundary, period, timeout)
MaxDur == 2
\* latest time at which a source produces an item or ends
MaxArrive == 3

\* most Ready results a consumer takes from a combinator that keeps no
\* record of having finished
MaxOut == 4

MaxTime == MaxArrive + 1

Durations == 0..MaxDur

\* Option::None for a slot of item numbers
None == 0

\* a struct that a specification does not use
Unused == [unused |-> TRUE]

----------------------------------------------------------------------------
(* Poll results. *)

Pending == [kind |-> "pending", v |-> None]
ReadyNone == [kind |-> "none", v |-> None]
ReadySome(v) == [kind |-> "item", v |-> v]
ReadyOk(v) == [kind |-> "ok", v |-> v]
ReadyErr == [kind |-> "err", v |-> None]
NotPolled == [kind |-> "notpolled", v |-> None]
Panic == [kind |-> "panic", v |-> None]

----------------------------------------------------------------------------
(* async_io::Timer: a deadline; polling it is Ready once the deadline has  *)
(* been reached, and otherwise registers the waker in the reactor.         *)

TimerAfter(dur) == now + dur

TimerAt(instant) == instant

TimerReady(when) == now >= when

----------------------------------------------------------------------------
(* The wrapped stream.  `times` are the arrival times of its items,        *)
(* `taken` counts the items handed out, `closed` says the source has       *)
(* ended (it reports None once its items are drained).                     *)

StreamInit == [times |-> <<>>, taken |-> 0, closed |-> FALSE, endAt |-> 0,
               ended |-> FALSE, misuse |-> FALSE]

\* S::poll_next: the next item, exhaustion, or Pending
StreamPollNext(s) ==
    IF s.taken < Len(s.times) THEN ReadySome(s.taken + 1)
    ELSE IF s.closed THEN ReadyNone
    ELSE Pending

\* the stream after one call of poll_next
StreamAfterPoll(s) ==
    IF s.ended THEN [s EXCEPT !.misuse = TRUE]
    ELSE IF s.taken < Len(s.times) THEN [s EXCEPT !.taken = @ + 1]
    ELSE IF s.closed THEN [s EXCEPT !.ended = TRUE]
    ELSE s

WakerInit == [woken |-> TRUE, inner |-> FALSE, timers |-> {}]

LastInit == [res |-> Pending, polled |-> {}]

\* the source produces an item, waking the task if its waker is registered
Produce(maxItems, maxArrive) ==
    /\ ~stream.closed
    /\ Len(stream.times) < maxItems
    /\ now <= maxArrive
    /\ stream' = [stream EXCEPT !.times = Append(@, now)]
    /\ waker' = IF waker.inner
                THEN [waker EXCEPT !.woken = TRUE, !.inner = FALSE]
                ELSE waker
    /\ UNCHANGED <<now, last, out, debounce, throttle, future, ftimeout, stimeout, ghost,
                   intervalStream, fdelay, sdelay, park, parker, buffer>>

\* the source ends
End(maxArrive) ==
    /\ ~stream.closed
    /\ now <= maxArrive
    /\ stream' = [stream EXCEPT !.closed = TRUE, !.endAt = now]
    /\ waker' = IF waker.inner
                THEN [waker EXCEPT !.woken = TRUE, !.inner = FALSE]
                ELSE waker
    /\ UNCHANGED <<now, last, out, debounce, throttle, future, ftimeout, stimeout, ghost,
                   intervalStream, fdelay, sdelay, park, parker, buffer>>

\* the clock advances; the reactor fires the timers that have become due
Advance ==
    /\ now' = now + 1
    /\ LET due == {w \in waker.timers : w <= now + 1} IN
       waker' = IF due # {}
                THEN [waker EXCEPT !.woken = TRUE, !.timers = @ \ due]
                ELSE waker
    /\ UNCHANGED <<stream, last, out, debounce, throttle, future, ftimeout, stimeout, ghost,
                   intervalStream, fdelay, sdelay, park, parker, buffer>>

Arrive == Produce(MaxItems, MaxArrive)

Close == End(MaxArrive)

\* the model's clock stops at MaxTime unless a registered timer is pending
Tick == (now < MaxTime \/ waker.timers # {}) /\ Advance

\* the combinator returns `res` having polled the children in `polled`
Return(res, polled) ==
    /\ last' = [res |-> res, polled |-> polled]
    /\ out' = IF res.kind = "pending" THEN out
              ELSE Append(out, [kind |-> res.kind, v |-> res.v, t |-> now])

\* the values of the items the combinator has yielded, in order
Items ==
    LET sel == SelectSeq(out, LAMBDA e : e.kind = "item") IN
    [i \in 1..Len(sel) |-> sel[i].v]

\* the times at which those items were yielded
ItemTimes ==
    LET sel == SelectSeq(out, LAMBDA e : e.kind = "item") IN
    [i \in 1..Len(sel) |-> sel[i].t]

\* the combinator has reported exhaustion (Ready(None))
Reported == \E i \in 1..Len(out) : out[i].kind = "none"

\* the source has produced n items so far
Produced == Len(stream.times)

----------------------------------------------------------------------------
(* Debounce  (src/src/stream/debounce.rs)                                  *)

DebounceNew(boundary) ==
    [timer |-> TimerAfter(boundary), boundary |-> boundary, slot |-> None,
     exhausted |-> FALSE, done |-> FALSE]

\* as DebounceOnItem, but the quiet-period timer is not re-armed
DebounceOnItemNoRearm(value) ==
    IF TimerReady(debounce.timer)
    THEN /\ debounce' = [debounce EXCEPT !.slot = None]
         /\ waker' = [woken |-> TRUE, inner |-> FALSE, timers |-> {}]
         /\ Return(ReadySome(value), {"stream", "timer"})
    ELSE /\ debounce' = [debounce EXCEPT !.slot = value]
         /\ waker' = [woken |-> FALSE, inner |-> FALSE, timers |-> {debounce.timer}]
         /\ Return(Pending, {"stream", "timer"})

\* as DebounceOnItem, but an item already in the slot is kept
DebounceOnItemKeepFirst(value) ==
    LET timer == TimerAfter(debounce.boundary)
        kept == IF debounce.slot # None THEN debounce.slot ELSE value IN
    IF TimerReady(timer)
    THEN /\ debounce' = [debounce EXCEPT !.timer = timer, !.slot = None]
         /\ waker' = [woken |-> TRUE, inner |-> FALSE, timers |-> {}]
         /\ Return(ReadySome(kept), {"stream", "timer"})
    ELSE /\ debounce' = [debounce EXCEPT !.timer = timer, !.slot = kept]
         /\ waker' = [woken |-> FALSE, inner |-> FALSE, timers |-> {timer}]
         /\ Return(Pending, {"stream", "timer"})

\* Poll::Ready(Some(value)): store, re-arm, poll the fresh timer
DebounceOnItem(value) ==
    LET timer == TimerAfter(debounce.boundary) IN
    IF TimerReady(timer)
    THEN /\ debounce' = [debounce EXCEPT !.timer = timer, !.slot = None]
         /\ waker' = [woken |-> TRUE, inner |-> FALSE, timers |-> {}]
         /\ Return(ReadySome(value), {"stream", "timer"})
    ELSE /\ debounce' = [debounce EXCEPT !.timer = timer, !.slot = value]
         /\ waker' = [woken |-> FALSE, inner |-> FALSE, timers |-> {timer}]
         /\ Return(Pending, {"stream", "timer"})

\* as DebounceOnNone, but the flush does not record that the source ended
DebounceOnNoneForgetful ==
    IF debounce.slot # None
    THEN /\ debounce' = [debounce EXCEPT !.slot = None]
         /\ waker' = [waker EXCEPT !.woken = TRUE, !.inner = FALSE]
         /\ Return(ReadySome(debounce.slot), {"stream"})
    ELSE /\ debounce' = [debounce EXCEPT !.exhausted = TRUE, !.done = TRUE]
         /\ waker' = [waker EXCEPT !.woken = FALSE, !.inner = FALSE]
         /\ Return(ReadyNone, {"stream"})

\* as DebounceOnNone, but the slot is dropped instead of flushed
DebounceOnNoneNoFlush ==
    /\ debounce' = [debounce EXCEPT !.slot = None, !.exhausted = TRUE, !.done = TRUE]
    /\ waker' = [waker EXCEPT !.woken = FALSE, !.inner = FALSE]
    /\ Return(ReadyNone, {"stream"})

\* Poll::Ready(None): flush the slot, or finish
DebounceOnNone ==
    IF debounce.slot # None
    THEN /\ debounce' = [debounce EXCEPT !.slot = None, !.exhausted = TRUE]
         /\ waker' = [waker EXCEPT !.woken = TRUE, !.inner = FALSE]
         /\ Return(ReadySome(debounce.slot), {"stream"})
    ELSE /\ debounce' = [debounce EXCEPT !.exhausted = TRUE, !.done = TRUE]
         /\ waker' = [waker EXCEPT !.woken = FALSE, !.inner = FALSE]
         /\ Return(ReadyNone, {"stream"})

\* Poll::Pending: the quiet-period timer decides
DebounceOnPending ==
    IF TimerReady(debounce.timer)
    THEN IF debounce.slot # None
         THEN /\ debounce' = [debounce EXCEPT !.slot = None]
              /\ waker' = [woken |-> TRUE, inner |-> TRUE,
                           timers |-> waker.timers \ {debounce.timer}]
              /\ Return(ReadySome(debounce.slot), {"stream", "timer"})
         ELSE /\ debounce' = debounce
              /\ waker' = [woken |-> FALSE, inner |-> TRUE,
                           timers |-> waker.timers \ {debounce.timer}]
              /\ Return(Pending, {"stream", "timer"})
    ELSE /\ debounce' = debounce
         /\ waker' = [woken |-> FALSE, inner |-> TRUE,
                      timers |-> waker.timers \cup {debounce.timer}]
         /\ Return(Pending, {"stream", "timer"})

\* as DebouncePollNext, but a finished Debounce reports exhaustion again
DebouncePollNextFused ==
    /\ last.res.kind # "panic"
    /\ IF debounce.done
       THEN /\ Return(ReadyNone, {})
            /\ UNCHANGED <<debounce, stream, waker>>
       ELSE IF debounce.exhausted
       THEN /\ debounce' = [debounce EXCEPT !.done = TRUE]
            /\ waker' = [waker EXCEPT !.woken = FALSE]
            /\ Return(ReadyNone, {})
            /\ UNCHANGED stream
       ELSE /\ stream' = StreamAfterPoll(stream)
            /\ LET r == StreamPollNext(stream) IN
               CASE r.kind = "item" -> DebounceOnItem(r.v)
                 [] r.kind = "none" -> DebounceOnNone
                 [] OTHER -> DebounceOnPending
    /\ UNCHANGED <<now, throttle, future, ftimeout, stimeout, ghost,
                   intervalStream, fdelay, sdelay, park, parker, buffer>>

\* Debounce::poll_next
DebouncePollNext ==
    /\ last.res.kind # "panic"
    /\ IF debounce.done
       THEN /\ Return(Panic, {})
            /\ UNCHANGED <<debounce, stream, waker>>
       ELSE IF debounce.exhausted
       THEN /\ debounce' = [debounce EXCEPT !.done = TRUE]
            /\ waker' = [waker EXCEPT !.woken = FALSE]
            /\ Return(ReadyNone, {})
            /\ UNCHANGED stream
       ELSE /\ stream' = StreamAfterPoll(stream)
            /\ LET r == StreamPollNext(stream) IN
               CASE r.kind = "item" -> DebounceOnItem(r.v)
                 [] r.kind = "none" -> DebounceOnNone
                 [] OTHER -> DebounceOnPending
    /\ UNCHANGED <<now, throttle, future, ftimeout, stimeout, ghost,
                   intervalStream, fdelay, sdelay, park, parker, buffer>>

DebounceInit ==
    /\ now = 0
    /\ buffer = Unused
    /\ stream = StreamInit
    /\ waker = WakerInit
    /\ last = LastInit
    /\ out = <<>>
    /\ \E boundary \in Durations : debounce = DebounceNew(boundary)
    /\ throttle = Unused
    /\ future = Unused
    /\ ftimeout = Unused
    /\ stimeout = Unused
    /\ ghost = Unused
    /\ intervalStream = Unused
    /\ fdelay = Unused
    /\ sdelay = Unused
    /\ park = Unused
    /\ parker = Unused

\* the consumer polls whenever it likes (late and spurious polls included)
DebounceNext == DebouncePollNext \/ Arrive \/ Close \/ Tick

\* a woken task is polled eventually, and time passes
SpecDebounce ==
    /\ DebounceInit
    /\ [][DebounceNext]_vars
    /\ WF_vars(waker.woken /\ DebouncePollNext)
    /\ WF_vars(Tick)

\* the consumer polls only when woken, and before the clock moves on
DebounceWakeNext ==
    \/ waker.woken /\ DebouncePollNext
    \/ Arrive
    \/ Close
    \/ ~waker.woken /\ Tick

SpecDebounceWake ==
    /\ DebounceInit
    /\ [][DebounceWakeNext]_vars
    /\ WF_vars(waker.woken /\ DebouncePollNext)
    /\ WF_vars(~waker.woken /\ Tick)

----------------------------------------------------------------------------
(* Interval  (src/src/interval.rs)                                         *)

\* interval(dur)
IntervalNew(dur) == [delay |-> TimerAfter(dur), interval |-> dur]

\* Interval::poll_next yields a tick iff its timer has fired
IntervalReady(iv) == TimerReady(iv.delay)

\* as IntervalAfterPoll, but the timer is re-armed one unit short
IntervalAfterPollShort(iv) ==
    IF TimerReady(iv.delay)
    THEN [iv EXCEPT !.delay = TimerAfter(iv.interval - 1)]
    ELSE iv

\* as IntervalAfterPoll, but the timer is re-armed from its previous
\* deadline, so that ticks missed during a stall are caught up
IntervalAfterPollIdeal(iv) ==
    IF TimerReady(iv.delay)
    THEN [iv EXCEPT !.delay = iv.delay + iv.interval]
    ELSE iv

\* the Interval after poll_next: on a tick the timer is re-armed from now
IntervalAfterPoll(iv) ==
    IF TimerReady(iv.delay)
    THEN [iv EXCEPT !.delay = TimerAfter(iv.interval)]
    ELSE iv

----------------------------------------------------------------------------
(* Throttle  (src/src/stream/throttle.rs)                                  *)

\* the per-window budget set by Throttle::new
Budget == 1

ThrottleNew(interval) ==
    [interval |-> interval, state |-> [tag |-> "Streaming", count |-> 0],
     budget |-> Budget]

RECURSIVE ThrottleDrainLast(_, _, _, _)
\* as ThrottleDrain, but every item of the window overwrites the slot
ThrottleDrainLast(s, count, slot, budget) ==
    LET r == StreamPollNext(s) IN
    IF r.kind = "item"
    THEN ThrottleDrainLast(StreamAfterPoll(s),
                           IF count < budget THEN count + 1 ELSE count, r.v, budget)
    ELSE [stream |-> StreamAfterPoll(s), count |-> count, slot |-> slot,
          done |-> r.kind = "none"]

RECURSIVE ThrottleDrainDropAtEnd(_, _, _, _)
\* as ThrottleDrain, but the accepted item is lost when the stream ends
ThrottleDrainDropAtEnd(s, count, slot, budget) ==
    LET r == StreamPollNext(s) IN
    IF r.kind = "item"
    THEN IF count < budget
         THEN ThrottleDrainDropAtEnd(StreamAfterPoll(s), count + 1, r.v, budget)
         ELSE ThrottleDrainDropAtEnd(StreamAfterPoll(s), count, slot, budget)
    ELSE [stream |-> StreamAfterPoll(s), count |-> count,
          slot |-> IF r.kind = "none" THEN None ELSE slot,
          done |-> r.kind = "none"]

RECURSIVE ThrottleDrain(_, _, _, _)
\* the loop: poll the underlying stream until Pending or None, keeping
\* an item in the slot only while the window's budget lasts
ThrottleDrain(s, count, slot, budget) ==
    LET r == StreamPollNext(s) IN
    IF r.kind = "item"
    THEN IF count < budget
         THEN ThrottleDrain(StreamAfterPoll(s), count + 1, r.v, budget)
         ELSE ThrottleDrain(StreamAfterPoll(s), count, slot, budget)
    ELSE [stream |-> StreamAfterPoll(s), count |-> count, slot |-> slot,
          done |-> r.kind = "none"]

\* as ThrottleReset, but the counter is reset on every poll
ThrottleResetAlways(tick, count) == 0

\* the closure mapped over the interval's poll: a tick resets the counter
ThrottleReset(tick, count) == IF tick THEN 0 ELSE count

\* an interval stream of the caller's own (any Stream can be the interval
\* of a Throttle): `ticks` are the ticks it has ready to yield, `waiting`
\* says that it holds the task's waker, `closed` that it ends once its
\* ticks are drained, `ended` that it has reported None, `misuse` that it
\* was polled after that
ExternalInterval == [ticks |-> 0, waiting |-> FALSE, closed |-> FALSE,
                     ended |-> FALSE, misuse |-> FALSE]

IsExternal(iv) == "ticks" \in DOMAIN iv

\* this.interval.poll_next(cx) is Ready (a tick, or the interval's None)
ThrottleIntervalReady(iv) ==
    IF IsExternal(iv) THEN iv.ticks > 0 \/ iv.closed ELSE IntervalReady(iv)

\* what this.interval.poll_next(cx) can do: an interval stream polled after
\* its end may return anything, or panic
ThrottleIntervalPoll(iv) ==
    IF IsExternal(iv) /\ iv.ended THEN {"ready", "pending", "panic"}
    ELSE IF ThrottleIntervalReady(iv) THEN {"ready"}
    ELSE {"pending"}

\* the interval after that poll
ThrottleIntervalAfterPoll(iv) ==
    IF IsExternal(iv)
    THEN IF iv.ended THEN [iv EXCEPT !.misuse = TRUE]
         ELSE IF iv.ticks > 0
         THEN [iv EXCEPT !.ticks = @ - 1, !.waiting = FALSE]
         ELSE IF iv.closed
         THEN [iv EXCEPT !.ended = TRUE, !.waiting = FALSE]
         ELSE [iv EXCEPT !.waiting = TRUE]
    ELSE IntervalAfterPoll(iv)

\* the timers the task's waker is registered with after that poll
ThrottleTimers(iv, tick) ==
    IF IsExternal(iv) THEN waker.timers
    ELSE IF tick THEN waker.timers \ {iv.delay}
    ELSE waker.timers \cup {iv.delay}

\* State::Streaming(count)
ThrottleStreaming ==
    \E polled \in ThrottleIntervalPoll(throttle.interval) :
    LET d == ThrottleDrain(stream, throttle.state.count, None, throttle.budget)
        tick == polled = "ready"
        iv == ThrottleIntervalAfterPoll(throttle.interval)
        res == IF polled = "panic" THEN Panic
               ELSE IF d.slot # None THEN ReadySome(d.slot) ELSE Pending
    IN
    /\ stream' = d.stream
    /\ throttle' = [throttle EXCEPT
                      !.interval = iv,
                      !.state = IF d.done
                                THEN [tag |-> "StreamDone", count |-> 0]
                                ELSE [tag |-> "Streaming",
                                      count |-> ThrottleReset(tick, d.count)]]
    /\ waker' = [woken |-> (d.slot # None) \/ (tick /\ d.done),
                 inner |-> ~d.done,
                 timers |-> ThrottleTimers(throttle.interval, tick)]
    /\ ghost' = [ticks |-> IF tick THEN ghost.ticks + 1 ELSE ghost.ticks,
                 taken |-> ghost.taken \o
                           [i \in 1..(d.stream.taken - stream.taken) |->
                              [v |-> stream.taken + i, w |-> ghost.ticks]]]
    /\ Return(res, {"stream", "interval"})

\* Throttle::poll_next
ThrottlePollNext ==
    /\ last.res.kind # "panic"
    /\ CASE throttle.state.tag = "Streaming" -> ThrottleStreaming
         [] throttle.state.tag = "StreamDone" ->
              /\ throttle' = [throttle EXCEPT !.state = [tag |-> "AllDone", count |-> 0]]
              /\ waker' = [waker EXCEPT !.woken = FALSE]
              /\ Return(ReadyNone, {})
              /\ UNCHANGED <<stream, ghost>>
         [] throttle.state.tag = "AllDone" ->
              /\ Return(Panic, {})
              /\ UNCHANGED <<throttle, stream, waker, ghost>>
    /\ UNCHANGED <<now, debounce, future, ftimeout, stimeout,
                   intervalStream, fdelay, sdelay, park, parker, buffer>>

\* the window-boundary scenario needs one more item, a longer period and
\* a later arrival than the other combinators' scenarios
ThrottleMaxItems == MaxItems + 1
ThrottleMaxPeriod == MaxDur + 1
ThrottleMaxArrive == MaxArrive + 1
ThrottleMaxTime == ThrottleMaxArrive + ThrottleMaxPeriod

ThrottleInit ==
    /\ now = 0
    /\ buffer = Unused
    /\ stream = StreamInit
    /\ waker = WakerInit
    /\ last = LastInit
    /\ out = <<>>
    /\ \E period \in 1..ThrottleMaxPeriod : throttle = ThrottleNew(IntervalNew(period))
    /\ ghost = [ticks |-> 0, taken |-> <<>>]
    /\ debounce = Unused
    /\ future = Unused
    /\ ftimeout = Unused
    /\ stimeout = Unused
    /\ intervalStream = Unused
    /\ fdelay = Unused
    /\ sdelay = Unused
    /\ park = Unused
    /\ parker = Unused

ThrottleArrive == Produce(MaxItems, MaxArrive)

ThrottleClose == End(MaxArrive)

ThrottleTick == now < MaxTime /\ Advance

\* the consumer polls whenever it likes (late and spurious polls included)
ThrottleNext == ThrottlePollNext \/ ThrottleArrive \/ ThrottleClose \/ ThrottleTick

SpecThrottle == ThrottleInit /\ [][ThrottleNext]_vars

ThrottleWakeArrive == Produce(ThrottleMaxItems, ThrottleMaxArrive)

ThrottleWakeClose == End(ThrottleMaxArrive)

ThrottleWakeTick == ~waker.woken /\ now < ThrottleMaxTime /\ Advance

\* the consumer polls only when woken, and before the clock moves on
ThrottleWakeNext ==
    \/ waker.woken /\ ThrottlePollNext
    \/ ThrottleWakeArrive
    \/ ThrottleWakeClose
    \/ ThrottleWakeTick

SpecThrottleWake == ThrottleInit /\ [][ThrottleWakeNext]_vars

----------------------------------------------------------------------------
(* The wrapped future F: it resolves once, at a moment of its own choosing *)

Values == 1..MaxItems

FutureInit == [ready |-> FALSE, val |-> None]

\* F::poll
FuturePoll(f) == IF f.ready THEN ReadyOk(f.val) ELSE Pending

\* the wrapped future resolves, waking the task if its waker is registered
Resolve ==
    /\ ~future.ready
    /\ now <= MaxArrive
    /\ \E v \in Values : future' = [ready |-> TRUE, val |-> v]
    /\ waker' = IF waker.inner
                THEN [waker EXCEPT !.woken = TRUE, !.inner = FALSE]
                ELSE waker
    /\ UNCHANGED <<now, stream, last, out, debounce, throttle, ftimeout, stimeout, ghost,
                   intervalStream, fdelay, sdelay, park, parker, buffer>>

----------------------------------------------------------------------------
(* Future timeouts: future::Timeout (src/src/future/timeout.rs),           *)
(* future::TimeoutAt (src/src/future/timeout_at.rs) and the crate-level    *)
(* Timeout (src/src/future_timeout.rs)                                     *)

\* as TimeoutNew, but the timer is armed one unit short
TimeoutNewShort(dur) == [kind |-> "Timeout", delay |-> TimerAfter(dur) - 1, completed |-> FALSE]

\* future::Timeout::new
TimeoutNew(dur) == [kind |-> "Timeout", delay |-> TimerAfter(dur), completed |-> FALSE]

\* future::TimeoutAt::new
TimeoutAtNew(deadline) == [kind |-> "TimeoutAt", delay |-> TimerAt(deadline)]

\* Timeout::new of src/src/future_timeout.rs
CrateTimeoutNew(dur) == [kind |-> "CrateTimeout", delay |-> TimerAfter(dur)]

\* the wrapped future has returned Ready to the combinator
FutureDone == \E i \in 1..Len(out) : out[i].kind = "ok"

\* the deadline has returned Ready to the combinator
DelayFired == \E i \in 1..Len(out) : out[i].kind = "err"

\* F::poll as the combinator sees it.  Polling a future again after it has
\* returned Ready is outside the contract of Future: it may return the value
\* again, stay pending, or panic.
FutureOutcomes ==
    IF FutureDone THEN {ReadyOk(future.val), Pending, Panic}
    ELSE {FuturePoll(future)}

\* Timer::poll as the combinator sees it: TRUE for Ready.  A Timer polled
\* again after it has fired is Ready again or Pending for ever, depending on
\* the version of async-io.
DelayOutcomes ==
    IF DelayFired THEN {TRUE, FALSE}
    ELSE {TimerReady(ftimeout.delay)}

\* the race shared by the three poll functions: the future first, and the
\* deadline only if the future is pending
TimeoutRace(r, due) ==
    IF r.kind \in {"ok", "panic"}
    THEN /\ waker' = [waker EXCEPT !.woken = FALSE, !.inner = FALSE]
         /\ ghost' = [ghost EXCEPT !.inner = r]
         /\ Return(r, {"future"})
    ELSE IF due
    THEN /\ waker' = [woken |-> FALSE, inner |-> ~future.ready,
                      timers |-> waker.timers \ {ftimeout.delay}]
         /\ ghost' = [ghost EXCEPT !.inner = r]
         /\ Return(ReadyErr, {"future", "delay"})
    ELSE /\ waker' = [woken |-> FALSE, inner |-> ~future.ready,
                      timers |-> IF TimerReady(ftimeout.delay) THEN waker.timers
                                 ELSE waker.timers \cup {ftimeout.delay}]
         /\ ghost' = [ghost EXCEPT !.inner = r]
         /\ Return(Pending, {"future", "delay"})

\* as TimeoutPoll, but the deadline is polled before the future
TimeoutPollDeadlineFirst ==
    /\ ftimeout.kind = "Timeout"
    /\ last.res.kind # "panic"
    /\ IF ftimeout.completed
       THEN /\ Return(Panic, {})
            /\ ghost' = [ghost EXCEPT !.inner = NotPolled]
            /\ UNCHANGED <<ftimeout, waker>>
       ELSE IF TimerReady(ftimeout.delay)
       THEN /\ ftimeout' = [ftimeout EXCEPT !.completed = TRUE]
            /\ waker' = [waker EXCEPT !.woken = FALSE, !.timers = @ \ {ftimeout.delay}]
            /\ ghost' = [ghost EXCEPT !.inner = NotPolled]
            /\ Return(ReadyErr, {"delay"})
       ELSE /\ ftimeout' = [ftimeout EXCEPT !.completed = future.ready]
            /\ waker' = [woken |-> FALSE, inner |-> ~future.ready,
                         timers |-> waker.timers \cup {ftimeout.delay}]
            /\ ghost' = [ghost EXCEPT !.inner = FuturePoll(future)]
            /\ Return(FuturePoll(future), {"delay", "future"})
    /\ UNCHANGED <<now, stream, future, debounce, throttle, stimeout,
                   intervalStream, fdelay, sdelay, park, parker, buffer>>

\* future::Timeout::poll
TimeoutPoll ==
    /\ ftimeout.kind = "Timeout"
    /\ last.res.kind # "panic"
    /\ IF ftimeout.completed
       THEN /\ Return(Panic, {})
            /\ ghost' = [ghost EXCEPT !.inner = NotPolled]
            /\ UNCHANGED <<ftimeout, waker>>
       ELSE /\ TimeoutRace(FuturePoll(future), TimerReady(ftimeout.delay))
            /\ ftimeout' = [ftimeout EXCEPT
                              !.completed = future.ready \/ TimerReady(ftimeout.delay)]
    /\ UNCHANGED <<now, stream, future, debounce, throttle, stimeout,
                   intervalStream, fdelay, sdelay, park, parker, buffer>>

\* future::TimeoutAt::poll; it keeps no record of having resolved
TimeoutAtPoll ==
    /\ ftimeout.kind = "TimeoutAt"
    /\ last.res.kind # "panic"
    /\ Len(out) < MaxOut
    /\ \E r \in FutureOutcomes, due \in DelayOutcomes : TimeoutRace(r, due)
    /\ UNCHANGED <<now, stream, future, ftimeout, debounce, throttle, stimeout,
                   intervalStream, fdelay, sdelay, park, parker, buffer>>

\* Timeout::poll of src/src/future_timeout.rs; no record of having resolved
CrateTimeoutPoll ==
    /\ ftimeout.kind = "CrateTimeout"
    /\ last.res.kind # "panic"
    /\ Len(out) < MaxOut
    /\ \E r \in FutureOutcomes, due \in DelayOutcomes : TimeoutRace(r, due)
    /\ UNCHANGED <<now, stream, future, ftimeout, debounce, throttle, stimeout,
                   intervalStream, fdelay, sdelay, park, parker, buffer>>

FutureTimeoutInit ==
    /\ now = 0
    /\ buffer = Unused
    /\ future = FutureInit
    /\ waker = WakerInit
    /\ last = LastInit
    /\ out = <<>>
    /\ \E dur \in Durations :
         /\ ftimeout \in {TimeoutNew(dur), TimeoutAtNew(now + dur), CrateTimeoutNew(dur)}
         /\ ghost = [created |-> now, dur |-> dur, inner |-> NotPolled]
    /\ stream = Unused
    /\ debounce = Unused
    /\ throttle = Unused
    /\ stimeout = Unused
    /\ intervalStream = Unused
    /\ fdelay = Unused
    /\ sdelay = Unused
    /\ park = Unused
    /\ parker = Unused

\* the consumer polls whenever it likes (late and spurious polls included)
FutureTimeoutNext ==
    TimeoutPoll \/ TimeoutAtPoll \/ CrateTimeoutPoll \/ Resolve \/ Tick

\* a woken task is polled eventually, and time passes
SpecFutureTimeout ==
    /\ FutureTimeoutInit
    /\ [][FutureTimeoutNext]_vars
    /\ WF_vars(waker.woken /\ (TimeoutPoll \/ TimeoutAtPoll \/ CrateTimeoutPoll))
    /\ WF_vars(Tick)

----------------------------------------------------------------------------
(* Stream timeouts: stream::Timeout (src/src/stream/timeout.rs) and        *)
(* stream::TimeoutAt (src/src/stream/timeout_at.rs)                        *)


\* stream::Timeout::new
StreamTimeoutNew(dur) == [kind |-> "Timeout", delay |-> TimerAfter(dur), duration |-> dur]

\* stream::TimeoutAt::new
StreamTimeoutAtNew(deadline) ==
    [kind |-> "TimeoutAt", delay |-> TimerAt(deadline), deadline |-> deadline]

\* as StreamTimeoutRearm, but the deadline is left as it was armed
StreamTimeoutNoRearm(t) == t.delay

\* the timer set before a result is returned
StreamTimeoutRearm(t) ==
    IF t.kind = "Timeout" THEN TimerAfter(t.duration) ELSE TimerAt(t.deadline)

\* as StreamTimeoutPollNext, but the deadline is looked at before the result
\* of the stream: a due timer turns whatever the stream returned into TimedOut
StreamTimeoutPollNextDeadlineFirst ==
    /\ ~Reported
    /\ Len(out) < MaxOut
    /\ stream' = StreamAfterPoll(stream)
    /\ LET r == StreamPollNext(stream) IN
       /\ ghost' = [ghost EXCEPT !.inner = r]
       /\ IF TimerReady(stimeout.delay)
          THEN /\ stimeout' = [stimeout EXCEPT !.delay = StreamTimeoutRearm(stimeout)]
               /\ waker' = [woken |-> TRUE, inner |-> r.kind = "pending", timers |-> {}]
               /\ Return(ReadyErr, {"stream", "delay"})
          ELSE IF r.kind = "pending"
          THEN /\ stimeout' = stimeout
               /\ waker' = [woken |-> FALSE, inner |-> TRUE,
                            timers |-> waker.timers \cup {stimeout.delay}]
               /\ Return(Pending, {"stream", "delay"})
          ELSE /\ stimeout' = [stimeout EXCEPT !.delay = StreamTimeoutRearm(stimeout)]
               /\ waker' = [woken |-> r.kind = "item", inner |-> FALSE, timers |-> {}]
               /\ Return(r, {"stream"})
    /\ UNCHANGED <<now, future, ftimeout, debounce, throttle,
                   intervalStream, fdelay, sdelay, park, parker, buffer>>

\* Timeout::poll_next and TimeoutAt::poll_next
StreamTimeoutPollNext ==
    /\ ~Reported
    /\ Len(out) < MaxOut
    /\ stream' = StreamAfterPoll(stream)
    /\ LET r == StreamPollNext(stream) IN
       /\ ghost' = [ghost EXCEPT !.inner = r]
       /\ IF r.kind = "item"
          THEN /\ stimeout' = [stimeout EXCEPT !.delay = StreamTimeoutRearm(stimeout)]
               /\ waker' = [woken |-> TRUE, inner |-> FALSE, timers |-> {}]
               /\ Return(r, {"stream"})
          ELSE IF r.kind = "none"
          THEN /\ stimeout' = [stimeout EXCEPT !.delay = StreamTimeoutRearm(stimeout)]
               /\ waker' = [woken |-> FALSE, inner |-> FALSE, timers |-> {}]
               /\ Return(r, {"stream"})
          ELSE IF TimerReady(stimeout.delay)
          THEN /\ stimeout' = [stimeout EXCEPT !.delay = StreamTimeoutRearm(stimeout)]
               /\ waker' = [woken |-> TRUE, inner |-> TRUE, timers |-> {}]
               /\ Return(ReadyErr, {"stream", "delay"})
          ELSE /\ stimeout' = stimeout
               /\ waker' = [woken |-> FALSE, inner |-> TRUE,
                            timers |-> waker.timers \cup {stimeout.delay}]
               /\ Return(Pending, {"stream", "delay"})
    /\ UNCHANGED <<now, future, ftimeout, debounce, throttle,
                   intervalStream, fdelay, sdelay, park, parker, buffer>>

StreamTimeoutInit ==
    /\ now = 0
    /\ buffer = Unused
    /\ stream = StreamInit
    /\ waker = WakerInit
    /\ last = LastInit
    /\ out = <<>>
    /\ \E dur \in Durations :
         /\ stimeout \in {StreamTimeoutNew(dur), StreamTimeoutAtNew(now + dur)}
         /\ ghost = [created |-> now, dur |-> dur, inner |-> NotPolled]
    /\ future = Unused
    /\ ftimeout = Unused
    /\ debounce = Unused
    /\ throttle = Unused
    /\ intervalStream = Unused
    /\ fdelay = Unused
    /\ sdelay = Unused
    /\ park = Unused
    /\ parker = Unused

StreamTimeoutTick == now < MaxTime /\ Advance

\* the consumer polls whenever it likes (late and spurious polls included)
StreamTimeoutNext == StreamTimeoutPollNext \/ Arrive \/ Close \/ StreamTimeoutTick

SpecStreamTimeout == StreamTimeoutInit /\ [][StreamTimeoutNext]_vars

----------------------------------------------------------------------------
(* Claims about Debounce *)

\* every item arrived less than one quiet period after the previous one
Burst ==
    /\ Produced >= 1
    /\ \A i \in 2..Produced : stream.times[i] - stream.times[i-1] < debounce.boundary

\* every item arrived more than one quiet period after the previous one
Sparse ==
    /\ Produced >= 1
    /\ \A i \in 2..Produced : stream.times[i] - stream.times[i-1] > debounce.boundary

BurstOneItem ==
    Burst => /\ Len(Items) <= 1
             /\ Items # <<>> => Items[1] = Produced
             /\ Reported => Items = <<Produced>>

\* C1: for a source whose N >= 1 items each arrive less than one quiet
\* period after the previous one and which then ends, Debounce emits exactly
\* one item, the last one produced, and then reports exhaustion.
C1_DebounceBurst ==
    /\ []BurstOneItem
    /\ (Burst /\ stream.closed) ~> Reported

C1_Witness ==
    /\ Burst
    /\ Produced >= 2
    /\ Reported
    /\ Items = <<Produced>>

\* C2: for a source whose N items are each separated from the previous one
\* by more than one quiet period and which then ends, Debounce (polled when
\* woken) emits all N items unchanged, in source order, each exactly once,
\* before it reports exhaustion.
C2_DebounceSparse ==
    Sparse => /\ Len(Items) <= Produced
              /\ \A i \in 1..Len(Items) : Items[i] = i
              /\ Reported => Len(Items) = Produced

C2_Witness ==
    /\ Sparse
    /\ Produced >= 2
    /\ debounce.boundary >= 1
    /\ Reported
    /\ Items = [i \in 1..Produced |-> i]

----------------------------------------------------------------------------
(* Claims about Throttle *)

Period == throttle.interval.interval

\* C3: after Throttle emits an item it ignores source items for one
\* interval period, so any two consecutive items it emits are at least one
\* period apart in time.
C3_ThrottleSpacing ==
    \A i \in 1..(Len(ItemTimes) - 1) : ItemTimes[i+1] - ItemTimes[i] >= Period

\* the source yields items at p, 2p, 3p, 4p and then ends; the period is 3p
BoundaryScenario ==
    /\ Produced = 4
    /\ LET p == stream.times[1] IN
       /\ p >= 1
       /\ stream.times = <<p, 2 * p, 3 * p, 4 * p>>
       /\ Period = 3 * p
    /\ stream.closed
    /\ stream.endAt = stream.times[4]

\* C4: for a source yielding items at p, 2p, 3p, 4p and then ending,
\* throttled with period 3p, Throttle emits exactly two items: the one
\* produced at p and the one produced at 3p.
C4_ThrottleBoundary ==
    (BoundaryScenario /\ Reported) => Items = <<1, 3>>

\* C5 as claimed: over a run of duration T, Throttle with period P emits at
\* most ceil(T / P) items.
C5_ThrottleCeilBound ==
    Len(Items) <= (now + Period - 1) \div Period

\* C5 as amended: over a run of duration T, Throttle with period P emits at
\* most floor(T / P) + 1 items.
C5_ThrottleFloorBound ==
    Len(Items) <= (now \div Period) + 1

C5_Witness ==
    /\ Len(Items) >= 2
    /\ Len(Items) = (now \div Period) + 1
    /\ Len(ghost.taken) > Len(Items)

\* the items Throttle consumed between the w-th and the (w+1)-th tick it observed
Window(w) == SelectSeq(ghost.taken, LAMBDA e : e.w = w)

\* the items of that window that Throttle emitted
EmittedOf(w) ==
    SelectSeq(Items, LAMBDA v : \E i \in 1..Len(ghost.taken) :
                                   ghost.taken[i].v = v /\ ghost.taken[i].w = w)

----------------------------------------------------------------------------
(* Claims about the future timeouts *)

\* C7: whenever the wrapped future resolves with value v on a poll, the
\* timeout resolves on that same poll with success carrying exactly v, and
\* the deadline is not consulted on that poll.
C7_TimeoutSuccess ==
    ghost.inner.kind = "ok" =>
        /\ last.res = ReadyOk(future.val)
        /\ ghost.inner = ReadyOk(future.val)
        /\ "delay" \notin last.polled

C7_Witness ==
    /\ last.res.kind = "ok"
    /\ last.res.v = future.val
    /\ now < ftimeout.delay
    /\ now >= 1

TimedOutOnlyLate ==
    /\ \A i \in 1..Len(out) :
          out[i].kind = "err" => out[i].t >= ghost.created + ghost.dur
    /\ last.res.kind = "err" => ghost.inner = Pending

TimedOut == \E i \in 1..Len(out) : out[i].kind = "err"

\* C8: a timeout with deadline D returns TimedOut only on a poll at which
\* the wrapped future is still pending and at least D has elapsed since it
\* was created; if the wrapped future never resolves, TimedOut is
\* eventually returned.
C8_TimeoutNeverEarly ==
    /\ []TimedOutOnlyLate
    /\ <>(future.ready \/ TimedOut)

C8_Witness ==
    /\ TimedOut
    /\ ~future.ready
    /\ ghost.dur >= 1
    /\ out[1].t = ghost.created + ghost.dur

----------------------------------------------------------------------------
(* Claims about the stream timeouts *)

\* the first item arrived less than D after creation, and every later item
\* less than D after the one before it
GapsBelow ==
    /\ Produced >= 1
    /\ stream.times[1] - ghost.created < ghost.dur
    /\ \A i \in 2..Produced : stream.times[i] - stream.times[i-1] < ghost.dur

\* C9: stream Timeout with duration D yields TimedOut only on a poll where
\* the source is pending and at least D has elapsed since the most recent
\* result it returned (or since creation); while the source's items keep
\* arriving less than D apart, it yields no TimedOut, however long it runs.
C9_StreamTimeoutMaxGap ==
    stimeout.kind = "Timeout" =>
        /\ \A i \in 1..Len(out) :
              out[i].kind = "err" =>
                  out[i].t - (IF i = 1 THEN ghost.created ELSE out[i-1].t) >= ghost.dur
        /\ last.res.kind = "err" => ghost.inner = Pending
        /\ GapsBelow =>
              \A i \in 1..Len(out) :
                  out[i].kind = "err" => out[i].t >= stream.times[Produced] + ghost.dur

C9_Witness ==
    /\ stimeout.kind = "Timeout"
    /\ GapsBelow
    /\ Produced >= 3
    /\ Items = <<1, 2, 3>>
    /\ ItemTimes[3] > ghost.created + ghost.dur
    /\ ~TimedOut

\* C10: once a stream Timeout or TimeoutAt has yielded a TimedOut error it
\* is in a terminal state: no later poll yields another item or another
\* TimedOut error.
C10_TimeoutTerminal ==
    \A i \in 1..Len(out) :
        out[i].kind = "err" => \A j \in (i+1)..Len(out) : out[j].kind = "none"

----------------------------------------------------------------------------
(* Claims about polling a future combinator after it has resolved *)

\* the combinator has resolved (with success or with TimedOut) and has been
\* polled again since
PolledAfterCompletion ==
    /\ out # <<>>
    /\ out[1].kind \in {"ok", "err"}
    /\ Len(out) > 1 \/ last.res.kind = "pending"

\* C11: a poll of a future combinator made after it has resolved is reported
\* as a fatal assertion: it returns no second success, no second TimedOut and
\* no Pending, and it does not poll the wrapped future again.
C11_PollAfterCompletionFatal ==
    PolledAfterCompletion =>
        /\ Len(out) = 2
        /\ last.res = Panic
        /\ "future" \notin last.polled

----------------------------------------------------------------------------
(* Interval on its own  (src/src/interval.rs)                              *)

\* Poll::Ready(Some(())): the item of an Interval is the unit value
ReadyTick == [kind |-> "item", v |-> None]

\* the clock of the Interval specification stops here: room for MaxOut
\* periods, each of them observed one unit late
IntervalMaxTime == MaxOut * (MaxDur + 1)

\* Interval::poll_next
IntervalPollNext ==
    /\ Len(out) < MaxOut
    /\ intervalStream' = IntervalAfterPoll(intervalStream)
    /\ IF IntervalReady(intervalStream)
       THEN /\ waker' = [waker EXCEPT !.woken = FALSE,
                                      !.timers = @ \ {intervalStream.delay}]
            /\ Return(ReadyTick, {"delay"})
       ELSE /\ waker' = [waker EXCEPT !.woken = FALSE,
                                      !.timers = @ \cup {intervalStream.delay}]
            /\ Return(Pending, {"delay"})
    /\ UNCHANGED <<now, stream, debounce, throttle, future, ftimeout, stimeout,
                   fdelay, sdelay, park, parker, ghost, buffer>>

IntervalInit ==
    /\ now = 0
    /\ buffer = Unused
    /\ waker = WakerInit
    /\ last = LastInit
    /\ out = <<>>
    /\ \E dur \in Durations :
         /\ intervalStream = IntervalNew(dur)
         /\ ghost = [created |-> now, dur |-> dur]
    /\ stream = Unused
    /\ debounce = Unused
    /\ throttle = Unused
    /\ future = Unused
    /\ ftimeout = Unused
    /\ stimeout = Unused
    /\ fdelay = Unused
    /\ sdelay = Unused
    /\ park = Unused
    /\ parker = Unused

IntervalTick == now < IntervalMaxTime /\ Advance

\* the consumer polls whenever it likes (late and spurious polls included)
IntervalNext == IntervalPollNext \/ IntervalTick

SpecInterval == IntervalInit /\ [][IntervalNext]_vars

----------------------------------------------------------------------------
(* Claims about Interval *)

\* the k-th tick comes no earlier than k periods after creation, consecutive
\* ticks are at least one period apart, and exhaustion is never reported
TicksNotEarly ==
    /\ \A k \in 1..Len(out) :
          /\ out[k].kind = "item"
          /\ out[k].t >= ghost.created + k * ghost.dur
    /\ \A k \in 2..Len(out) : out[k].t - out[k-1].t >= ghost.dur

\* C12: for an Interval of period P the k-th tick is delivered no earlier
\* than k * P after creation, two consecutive ticks are at least P apart, a
\* single poll delivers at most one tick, and exhaustion is never reported.
C12_IntervalNeverEarly ==
    /\ []TicksNotEarly
    /\ [][Len(out') <= Len(out) + 1]_vars

C12_Witness ==
    /\ ghost.dur >= 1
    /\ Len(out) >= 3
    /\ out[1].t > ghost.created + ghost.dur
    /\ out[2].t = out[1].t + ghost.dur

\* C13: the Interval prevents time skew: also after a tick that was
\* delivered late, the next tick is due at an instant of the ideal schedule
\* creation + k * dur.
C13_IntervalNoSkew ==
    ghost.dur >= 1 =>
        (intervalStream.delay - ghost.created) % ghost.dur = 0

----------------------------------------------------------------------------
(* Delay and DelayUntil: future::Delay (src/src/future/delay.rs) with a    *)
(* Sleep deadline (src/src/task/sleep.rs), future::DelayUntil              *)
(* (src/src/future/delay_until.rs), stream::Delay                          *)
(* (src/src/stream/delay.rs), stream::DelayUntil                           *)
(* (src/src/stream/delay_until.rs)                                         *)

\* Poll::Ready(v) of a future whose output is the wrapped future's
ReadyValue(v) == [kind |-> "ready", v |-> v]

\* task::sleep: the deadline future that a Duration turns into
sleep(dur) == [timer |-> TimerAfter(dur), completed |-> FALSE]

\* future::Delay::new
FutureDelayNew(deadline) == [kind |-> "Delay", deadline |-> deadline, completed |-> FALSE]

\* future::DelayUntil::new; `fired` is the state of the one-shot Timer
FutureDelayUntilNew(deadline) == [kind |-> "DelayUntil", delay |-> TimerAt(deadline),
                                  fired |-> FALSE]

\* as StreamDelayNew, but the Delay starts in the streaming state
StreamDelayNewStreaming(dur) == [kind |-> "Delay", timer |-> TimerAfter(dur),
                                 state |-> "Streaming"]

\* stream::Delay::new
StreamDelayNew(dur) == [kind |-> "Delay", timer |-> TimerAfter(dur), state |-> "Timer"]

\* stream::DelayUntil::new
StreamDelayUntilNew(deadline) == [kind |-> "DelayUntil", delay |-> TimerAt(deadline),
                                  delay_done |-> FALSE]

\* the wrapped future has returned Ready to a Delay / DelayUntil
DelayedFutureDone == \E i \in 1..Len(out) : out[i].kind = "ready"

\* F::poll as Delay / DelayUntil sees it (a future polled again after it has
\* returned Ready may return the value again, stay pending, or panic)
DelayedFutureOutcomes ==
    IF DelayedFutureDone THEN {ReadyValue(future.val), Pending, Panic}
    ELSE IF future.ready THEN {ReadyValue(future.val)}
    ELSE {Pending}

\* the deadline polled Pending: the waker goes to the reactor
DelayWait(when, name) ==
    /\ waker' = [waker EXCEPT !.woken = FALSE,
                              !.timers = IF TimerReady(when) THEN @ ELSE @ \cup {when}]
    /\ Return(Pending, <<name>>)
    /\ ghost' = ghost

\* the deadline polled Ready, then the wrapped future polled with result r
DelayPollFuture(r, name) ==
    /\ waker' = [woken |-> FALSE, inner |-> r.kind = "pending" /\ ~future.ready,
                 timers |-> {}]
    /\ Return(r, <<name, "future">>)
    /\ ghost' = [ghost EXCEPT !.deadlineSeen = TRUE, !.sourcePolled = TRUE]

\* as FutureDelayPoll, but a future that is already resolved is delivered
\* without polling the deadline
FutureDelayPollFastPath ==
    /\ ghost.source = "future"
    /\ fdelay.kind = "Delay"
    /\ last.res.kind # "panic"
    /\ IF fdelay.completed
       THEN /\ Return(Panic, <<>>)
            /\ UNCHANGED <<fdelay, waker, ghost>>
       ELSE IF future.ready
       THEN /\ fdelay' = [fdelay EXCEPT !.completed = TRUE]
            /\ waker' = [woken |-> FALSE, inner |-> FALSE, timers |-> {}]
            /\ Return(ReadyValue(future.val), <<"future">>)
            /\ ghost' = [ghost EXCEPT !.sourcePolled = TRUE]
       ELSE /\ DelayWait(fdelay.deadline.timer, "deadline")
            /\ fdelay' = fdelay
    /\ UNCHANGED <<now, stream, future, debounce, throttle, ftimeout, stimeout,
                   intervalStream, sdelay, park, parker, buffer>>

\* future::Delay::poll over a Sleep deadline.  The deadline is polled on
\* every poll, so once the Sleep has resolved the next poll runs into the
\* assertion of Sleep::poll.
FutureDelayPoll ==
    /\ ghost.source = "future"
    /\ fdelay.kind = "Delay"
    /\ last.res.kind # "panic"
    /\ IF fdelay.completed
       THEN /\ Return(Panic, <<>>)
            /\ UNCHANGED <<fdelay, waker, ghost>>
       ELSE IF fdelay.deadline.completed
       THEN /\ Return(Panic, <<"deadline">>)
            /\ UNCHANGED <<fdelay, waker, ghost>>
       ELSE IF ~TimerReady(fdelay.deadline.timer)
       THEN /\ DelayWait(fdelay.deadline.timer, "deadline")
            /\ fdelay' = fdelay
       ELSE /\ \E r \in DelayedFutureOutcomes : DelayPollFuture(r, "deadline")
            /\ fdelay' = [fdelay EXCEPT !.deadline.completed = TRUE,
                                        !.completed = future.ready]
    /\ UNCHANGED <<now, stream, future, debounce, throttle, ftimeout, stimeout,
                   intervalStream, sdelay, park, parker, buffer>>

\* future::DelayUntil::poll; it keeps no record of having resolved.  A Timer
\* polled again after it has fired is Ready again or Pending for ever,
\* depending on the version of async-io.
FutureDelayUntilPoll ==
    /\ ghost.source = "future"
    /\ fdelay.kind = "DelayUntil"
    /\ last.res.kind # "panic"
    /\ Len(out) < MaxOut
    /\ \E due \in (IF fdelay.fired THEN {TRUE, FALSE} ELSE {TimerReady(fdelay.delay)}) :
         IF ~due
         THEN /\ DelayWait(fdelay.delay, "delay")
              /\ fdelay' = fdelay
         ELSE /\ \E r \in DelayedFutureOutcomes : DelayPollFuture(r, "delay")
              /\ fdelay' = [fdelay EXCEPT !.fired = TRUE]
    /\ UNCHANGED <<now, stream, future, debounce, throttle, ftimeout, stimeout,
                   intervalStream, sdelay, park, parker, buffer>>

\* this.stream.poll_next(cx) of the two stream delays
DelayPollStream(polled) ==
    /\ stream' = StreamAfterPoll(stream)
    /\ LET r == StreamPollNext(stream) IN
       /\ waker' = [woken |-> r.kind = "item", inner |-> r.kind = "pending",
                    timers |-> {}]
       /\ Return(r, polled)
    /\ ghost' = [ghost EXCEPT !.sourcePolled = TRUE]

\* as StreamDelayPollNext, but the gate is closed again behind every poll
\* of the stream: the timer is re-armed and the state stays State::Timer
StreamDelayPollNextRegate ==
    /\ ghost.source = "stream"
    /\ sdelay.kind = "Delay"
    /\ ~Reported
    /\ IF ~TimerReady(sdelay.timer)
       THEN /\ DelayWait(sdelay.timer, "timer")
            /\ UNCHANGED <<sdelay, stream>>
       ELSE /\ sdelay' = [sdelay EXCEPT !.timer = TimerAfter(ghost.dur)]
            /\ DelayPollStream(<<"timer", "stream">>)
    /\ UNCHANGED <<now, future, debounce, throttle, ftimeout, stimeout,
                   intervalStream, fdelay, park, parker, buffer>>

\* stream::Delay::poll_next
StreamDelayPollNext ==
    /\ ghost.source = "stream"
    /\ sdelay.kind = "Delay"
    /\ ~Reported
    /\ IF sdelay.state = "Timer"
       THEN IF ~TimerReady(sdelay.timer)
            THEN /\ DelayWait(sdelay.timer, "timer")
                 /\ UNCHANGED <<sdelay, stream>>
            ELSE /\ sdelay' = [sdelay EXCEPT !.state = "Streaming"]
                 /\ DelayPollStream(<<"timer", "stream">>)
       ELSE /\ DelayPollStream(<<"stream">>)
            /\ sdelay' = sdelay
    /\ UNCHANGED <<now, future, debounce, throttle, ftimeout, stimeout,
                   intervalStream, fdelay, park, parker, buffer>>

\* stream::DelayUntil::poll_next
StreamDelayUntilPollNext ==
    /\ ghost.source = "stream"
    /\ sdelay.kind = "DelayUntil"
    /\ ~Reported
    /\ IF ~sdelay.delay_done /\ ~TimerReady(sdelay.delay)
       THEN /\ DelayWait(sdelay.delay, "delay")
            /\ UNCHANGED <<sdelay, stream>>
       ELSE /\ sdelay' = [sdelay EXCEPT !.delay_done = TRUE]
            /\ DelayPollStream(IF sdelay.delay_done THEN <<"stream">>
                               ELSE <<"delay", "stream">>)
    /\ UNCHANGED <<now, future, debounce, throttle, ftimeout, stimeout,
                   intervalStream, fdelay, park, parker, buffer>>

DelayInit ==
    /\ now = 0
    /\ buffer = Unused
    /\ waker = WakerInit
    /\ last = [res |-> Pending, polled |-> <<>>]
    /\ out = <<>>
    /\ debounce = Unused
    /\ throttle = Unused
    /\ ftimeout = Unused
    /\ stimeout = Unused
    /\ intervalStream = Unused
    /\ park = Unused
    /\ parker = Unused
    /\ \E dur \in Durations :
         \/ /\ fdelay \in {FutureDelayNew(sleep(dur)), FutureDelayUntilNew(now + dur)}
            /\ future = FutureInit
            /\ sdelay = Unused
            /\ stream = Unused
            /\ ghost = [created |-> now, dur |-> dur, source |-> "future",
                        deadlineSeen |-> FALSE, sourcePolled |-> FALSE]
         \/ /\ sdelay \in {StreamDelayNew(dur), StreamDelayUntilNew(now + dur)}
            /\ stream = StreamInit
            /\ fdelay = Unused
            /\ future = Unused
            /\ ghost = [created |-> now, dur |-> dur, source |-> "stream",
                        deadlineSeen |-> FALSE, sourcePolled |-> FALSE]

DelayResolve == ghost.source = "future" /\ Resolve

DelayArrive == ghost.source = "stream" /\ Arrive

DelayClose == ghost.source = "stream" /\ Close

\* the consumer polls whenever it likes (late and spurious polls included)
DelayNext ==
    \/ FutureDelayPoll
    \/ FutureDelayUntilPoll
    \/ StreamDelayPollNext
    \/ StreamDelayUntilPollNext
    \/ DelayResolve
    \/ DelayArrive
    \/ DelayClose
    \/ Tick

SpecDelay == DelayInit /\ [][DelayNext]_vars

----------------------------------------------------------------------------
(* Claims about Delay and DelayUntil *)

\* the deadline of the combinator has been reached
DeadlineReached == now >= ghost.created + ghost.dur

\* C14: no poll of a Delay / DelayUntil (future or stream) made while the
\* deadline is unresolved polls the wrapped future or stream, and every such
\* poll returns not-ready.
C14_DelayGatesSource ==
    /\ ghost.sourcePolled => DeadlineReached
    /\ \A i \in 1..Len(out) : out[i].t >= ghost.created + ghost.dur
    /\ ~DeadlineReached =>
          /\ last.res = Pending
          /\ \A i \in 1..Len(last.polled) : last.polled[i] \notin {"future", "stream"}

C14_Witness ==
    /\ ghost.source = "stream"
    /\ ghost.dur = MaxDur
    /\ Produced >= 1
    /\ stream.times[1] < ghost.dur
    /\ Len(out) >= 1
    /\ out[1] = [kind |-> "item", v |-> 1, t |-> ghost.dur]
    /\ last.polled = <<"stream">>

\* C15: future::Delay polls its deadline, and sees it resolved, before the
\* first poll of the wrapped future, also when the deadline is zero-length
\* and the wrapped future is already resolved.
C15_DelayNoFastPath ==
    (ghost.source = "future" /\ fdelay.kind = "Delay") =>
        /\ ghost.sourcePolled => ghost.deadlineSeen
        /\ \A i \in 1..Len(last.polled) :
              last.polled[i] = "future" => (i > 1 /\ last.polled[1] = "deadline")

C15_Witness ==
    /\ ghost.source = "future"
    /\ fdelay.kind = "Delay"
    /\ ghost.dur = 0
    /\ now = 0
    /\ last.polled = <<"deadline", "future">>
    /\ out = <<[kind |-> "ready", v |-> future.val, t |-> 0]>>

----------------------------------------------------------------------------
(* future::Park  (src/src/future/park.rs): a future that is suspended and  *)
(* resumed by the tokens Parker::Park and Parker::Unpark arriving on a     *)
(* channel.                                                                *)

\* the tokens of the channel: pause and resume
ParkerTokens == {"Park", "Unpark"}

\* most tokens the sending side sends in a run
ParkMaxTokens == MaxItems

\* capacity of the token channel
ParkChannelCap == MaxDur

\* the receiving side of the channel: the tokens in flight, and whether
\* every sender has been dropped
ReceiverNew == [queue |-> <<>>, closed |-> FALSE]

\* Receiver::poll_next: the next token, "None" once closed and drained, or
\* "Pending"
ReceiverPollNext(rx) ==
    IF rx.queue # <<>> THEN Head(rx.queue)
    ELSE IF rx.closed THEN "None"
    ELSE "Pending"

\* the receiver after one call of poll_next
ReceiverAfterPoll(rx) ==
    IF rx.queue # <<>> THEN [rx EXCEPT !.queue = Tail(@)] ELSE rx

\* as ParkNew, but the wrapper starts in the active state
ParkNewActive(receiver) == [state |-> "Active", receiver |-> receiver]

\* Park::new: the wrapper starts suspended
ParkNew(receiver) == [state |-> "Suspended", receiver |-> receiver]

\* what one call of Park::poll does: the new struct, the result, the
\* children polled in order, the wakers registered (with the receiver, with
\* the wrapped future) and whether the receiver reported None
ParkOutcome(p, res, polled, regRecv, regFuture, sawNone) ==
    [park |-> p, res |-> res, polled |-> polled, regRecv |-> regRecv,
     regFuture |-> regFuture, sawNone |-> sawNone]

\* ready!(this.future.as_mut().poll(cx)) of the Active and NoChannel arms
ParkPollFuture(p, polled, regRecv, sawNone) ==
    IF future.ready
    THEN ParkOutcome([p EXCEPT !.state = "Completed"], ReadyValue(future.val),
                     Append(polled, "future"), regRecv, FALSE, sawNone)
    ELSE ParkOutcome(p, Pending, Append(polled, "future"), regRecv, TRUE, sawNone)

\* as ParkActive, but a closed channel suspends the wrapper
ParkActiveFailClosed(p, polled) ==
    LET t == ReceiverPollNext(p.receiver)
        q == [p EXCEPT !.receiver = ReceiverAfterPoll(p.receiver)] IN
    IF t \in {"Park", "None"}
    THEN ParkOutcome([q EXCEPT !.state = "Suspended"], Pending,
                     Append(polled, "receiver"), FALSE, FALSE, t = "None")
    ELSE ParkPollFuture(q, Append(polled, "receiver"), t = "Pending", FALSE)

\* the State::Active arm: a Park token suspends, anything else (an Unpark
\* token, None, Pending) lets the wrapped future be polled
ParkActive(p, polled) ==
    LET t == ReceiverPollNext(p.receiver)
        q == [p EXCEPT !.receiver = ReceiverAfterPoll(p.receiver)] IN
    IF t = "Park"
    THEN ParkOutcome([q EXCEPT !.state = "Suspended"], Pending,
                     Append(polled, "receiver"), FALSE, FALSE, FALSE)
    ELSE ParkPollFuture(q, Append(polled, "receiver"), t = "Pending", t = "None")

\* as ParkSuspended, but a poll that finds no token polls the wrapped
\* future all the same
ParkSuspendedLeaky(p) ==
    LET t == ReceiverPollNext(p.receiver)
        q == [p EXCEPT !.receiver = ReceiverAfterPoll(p.receiver)] IN
    IF t = "Pending"
    THEN ParkPollFuture(p, <<"receiver">>, TRUE, FALSE)
    ELSE IF t = "Park"
    THEN ParkOutcome(q, Pending, <<"receiver">>, FALSE, FALSE, FALSE)
    ELSE IF t = "Unpark"
    THEN ParkActive([q EXCEPT !.state = "Active"], <<"receiver">>)
    ELSE ParkPollFuture([q EXCEPT !.state = "NoChannel"], <<"receiver">>, FALSE, TRUE)

\* the State::Suspended arm; after an Unpark token or None the loop goes on
\* into the Active or the NoChannel arm within the same call
ParkSuspended(p) ==
    LET t == ReceiverPollNext(p.receiver)
        q == [p EXCEPT !.receiver = ReceiverAfterPoll(p.receiver)] IN
    IF t = "Pending"
    THEN ParkOutcome(p, Pending, <<"receiver">>, TRUE, FALSE, FALSE)
    ELSE IF t = "Park"
    THEN ParkOutcome(q, Pending, <<"receiver">>, FALSE, FALSE, FALSE)
    ELSE IF t = "Unpark"
    THEN ParkActive([q EXCEPT !.state = "Active"], <<"receiver">>)
    ELSE ParkPollFuture([q EXCEPT !.state = "NoChannel"], <<"receiver">>, FALSE, TRUE)

\* Park::poll
ParkPoll ==
    /\ last.res.kind # "panic"
    /\ LET o == IF park.state = "Suspended" THEN ParkSuspended(park)
                ELSE IF park.state = "Active" THEN ParkActive(park, <<>>)
                ELSE IF park.state = "NoChannel"
                THEN ParkPollFuture(park, <<>>, waker.recv, FALSE)
                ELSE ParkOutcome(park, Panic, <<>>, waker.recv, FALSE, FALSE) IN
       /\ park' = o.park
       /\ Return(o.res, o.polled)
       /\ waker' = [woken |-> FALSE, inner |-> waker.inner \/ o.regFuture,
                    recv |-> o.regRecv, timers |-> {}]
       /\ ghost' = [ghost EXCEPT !.sawNone = @ \/ o.sawNone]
    /\ UNCHANGED <<now, stream, future, debounce, throttle, ftimeout, stimeout,
                   intervalStream, fdelay, sdelay, parker, buffer>>

\* the sending side sends a token, waking the task if the receiver holds
\* its waker
ParkSend ==
    /\ ~park.receiver.closed
    /\ Len(park.receiver.queue) < ParkChannelCap
    /\ Len(ghost.sent) < ParkMaxTokens
    /\ \E tok \in ParkerTokens :
         /\ park' = [park EXCEPT !.receiver.queue = Append(@, tok)]
         /\ ghost' = [ghost EXCEPT !.sent = Append(@, tok)]
    /\ waker' = IF waker.recv
                THEN [waker EXCEPT !.woken = TRUE, !.recv = FALSE]
                ELSE waker
    /\ UNCHANGED <<now, stream, last, out, future, debounce, throttle, ftimeout,
                   stimeout, intervalStream, fdelay, sdelay, parker, buffer>>

\* every sender is dropped: the channel is closed
ParkDropSender ==
    /\ ~park.receiver.closed
    /\ park' = [park EXCEPT !.receiver.closed = TRUE]
    /\ waker' = IF waker.recv
                THEN [waker EXCEPT !.woken = TRUE, !.recv = FALSE]
                ELSE waker
    /\ UNCHANGED <<now, stream, last, out, future, debounce, throttle, ftimeout,
                   stimeout, intervalStream, fdelay, sdelay, parker, ghost, buffer>>

ParkInit ==
    /\ now = 0
    /\ buffer = Unused
    /\ future = FutureInit
    /\ waker = [woken |-> TRUE, inner |-> FALSE, recv |-> FALSE, timers |-> {}]
    /\ last = [res |-> Pending, polled |-> <<>>]
    /\ out = <<>>
    /\ park = ParkNew(ReceiverNew)
    /\ ghost = [sent |-> <<>>, sawNone |-> FALSE]
    /\ stream = Unused
    /\ debounce = Unused
    /\ throttle = Unused
    /\ ftimeout = Unused
    /\ stimeout = Unused
    /\ intervalStream = Unused
    /\ fdelay = Unused
    /\ sdelay = Unused
    /\ parker = Unused

\* the consumer polls whenever it likes (spurious polls included)
ParkNext == ParkPoll \/ ParkSend \/ ParkDropSender \/ Resolve

SpecPark == ParkInit /\ [][ParkNext]_vars

\* the task is polled when, and only when, one of its wakers has been woken
ParkWakePoll == waker.woken /\ ParkPoll

ParkWakeNext == ParkWakePoll \/ ParkSend \/ ParkDropSender \/ Resolve

SpecParkWake == ParkInit /\ [][ParkWakeNext]_vars /\ WF_vars(ParkWakePoll)

----------------------------------------------------------------------------
(* Claims about Park *)

\* the sending side has paused the wrapper and then resumed it for good:
\* its last token is Unpark and it sends no more
Resumed ==
    /\ Len(ghost.sent) = ParkMaxTokens
    /\ ghost.sent[ParkMaxTokens] = "Unpark"
    /\ \E i \in 1..(ParkMaxTokens - 1) : ghost.sent[i] = "Park"

\* C16: under wake-driven polling, once a pause token has been followed by
\* the final resume token, the wrapper returns to active polling, and it
\* completes if the wrapped future does.
C16_ParkResumeLiveness ==
    /\ (Resumed /\ future.ready) ~> (park.state = "Completed")
    /\ Resumed ~> (park.state # "Suspended")

\* C17: once the receiver has reported None to the wrapper, the wrapper is
\* never suspended again: that poll and every later one polls the wrapped
\* future, until it completes.
C17_ParkFailsOpen ==
    ghost.sawNone =>
        /\ park.state # "Suspended"
        /\ \/ last.res = Panic /\ park.state = "Completed"
           \/ last.polled[Len(last.polled)] = "future"

C17_Witness ==
    /\ ghost.sawNone
    /\ park.state = "Active"
    /\ \E i \in 1..Len(ghost.sent) : ghost.sent[i] = "Park"
    /\ last.res = Pending
    /\ last.polled = <<"receiver", "future">>

----------------------------------------------------------------------------
(* parker  (src/src/future/parker.rs): a Parker and its Unparkers around a *)
(* channel of capacity one.  The Parker's task and each Unparker's task    *)
(* run concurrently; park() and unpark() return futures, so calling them   *)
(* and polling what they return are separate steps.                        *)

\* async_channel::bounded(1)
ParkerChannelCap == 1

\* the Unparker and its clone
Unparkers == {"u1", "u2"}

\* parker(): the channel is empty, both sides exist, nothing is in flight
ParkerNew ==
    [chan |-> 0, alive |-> TRUE, park |-> "idle", parkWoken |-> FALSE,
     unparkers |-> [u \in Unparkers |-> TRUE],
     unpark |-> [u \in Unparkers |-> "idle"],
     unparkWoken |-> [u \in Unparkers |-> FALSE]]

\* some Unparker still exists
ParkerOpen == \E u \in Unparkers : parker.unparkers[u]

\* what the last poll of a Park or Unpark future saw and returned; `clean`
\* says, per Unparker, that no token was consumed since its unpark() call
ParkerLast(op, res, after) ==
    [op |-> op, res |-> res, token |-> parker.chan, open |-> ParkerOpen,
     alive |-> parker.alive, after |-> after, clean |-> ghost.clean]

\* the senders blocked on a full channel are woken
WakeBlocked == [u \in Unparkers |-> parker.unparkWoken[u] \/ parker.unpark[u] = "blocked"]

\* Parker::park: creates the Recv future
ParkerPark ==
    /\ parker.alive
    /\ parker.park = "idle"
    /\ parker' = [parker EXCEPT !.park = "created"]
    /\ UNCHANGED <<now, stream, waker, last, out, debounce, throttle, future, ftimeout,
                   stimeout, intervalStream, fdelay, sdelay, park, ghost, buffer>>

\* as ParkPollRecv, but a closed channel leaves the Park future pending
ParkPollRecvHang ==
    /\ parker.park \in {"created", "pending"}
    /\ IF parker.chan > 0
       THEN /\ parker' = [parker EXCEPT !.chan = @ - 1, !.park = "idle",
                                        !.parkWoken = FALSE, !.unparkWoken = WakeBlocked]
            /\ ghost' = [ghost EXCEPT !.last = ParkerLast("park", "ready", parker.chan - 1),
                                      !.consumed = TRUE,
                                      !.clean = [u \in Unparkers |-> FALSE]]
       ELSE /\ parker' = [parker EXCEPT !.park = "pending", !.parkWoken = FALSE]
            /\ ghost' = [ghost EXCEPT !.last = ParkerLast("park", "pending", parker.chan)]
    /\ UNCHANGED <<now, stream, waker, last, out, debounce, throttle, future, ftimeout,
                   stimeout, intervalStream, fdelay, sdelay, park, buffer>>

\* as ParkPollRecv, but the token is left in the channel
ParkPollRecvPeek ==
    /\ parker.park \in {"created", "pending"}
    /\ IF parker.chan > 0 \/ ~ParkerOpen
       THEN /\ parker' = [parker EXCEPT !.park = "idle", !.parkWoken = FALSE]
            /\ ghost' = [ghost EXCEPT !.last = ParkerLast("park", "ready", parker.chan),
                                      !.consumed = @ \/ parker.chan > 0]
       ELSE /\ parker' = [parker EXCEPT !.park = "pending", !.parkWoken = FALSE]
            /\ ghost' = [ghost EXCEPT !.last = ParkerLast("park", "pending", parker.chan)]
    /\ UNCHANGED <<now, stream, waker, last, out, debounce, throttle, future, ftimeout,
                   stimeout, intervalStream, fdelay, sdelay, park, buffer>>

\* <Park as Future>::poll: the Recv future takes the token if there is one
\* (making room for a blocked sender), reports an error, which is ignored, if
\* the channel is closed and empty, and is pending otherwise
ParkPollRecv ==
    /\ parker.park \in {"created", "pending"}
    /\ IF parker.chan > 0
       THEN /\ parker' = [parker EXCEPT !.chan = @ - 1, !.park = "idle",
                                        !.parkWoken = FALSE, !.unparkWoken = WakeBlocked]
            /\ ghost' = [ghost EXCEPT !.last = ParkerLast("park", "ready", parker.chan - 1),
                                      !.consumed = TRUE,
                                      !.clean = [u \in Unparkers |-> FALSE]]
       ELSE IF ~ParkerOpen
       THEN /\ parker' = [parker EXCEPT !.park = "idle", !.parkWoken = FALSE]
            /\ ghost' = [ghost EXCEPT !.last = ParkerLast("park", "ready", parker.chan)]
       ELSE /\ parker' = [parker EXCEPT !.park = "pending", !.parkWoken = FALSE]
            /\ ghost' = [ghost EXCEPT !.last = ParkerLast("park", "pending", parker.chan)]
    /\ UNCHANGED <<now, stream, waker, last, out, debounce, throttle, future, ftimeout,
                   stimeout, intervalStream, fdelay, sdelay, park, buffer>>

\* Unparker::unpark: the two guards are evaluated when the future is made
UnparkerUnpark(u) ==
    /\ parker.unparkers[u]
    /\ parker.unpark[u] = "idle"
    /\ parker' = [parker EXCEPT !.unpark[u] =
                     IF ~parker.alive \/ parker.chan >= ParkerChannelCap
                     THEN "completed" ELSE "created"]
    /\ ghost' = [ghost EXCEPT !.clean[u] = TRUE]
    /\ UNCHANGED <<now, stream, waker, last, out, debounce, throttle, future, ftimeout,
                   stimeout, intervalStream, fdelay, sdelay, park, buffer>>

\* <Unpark as Future>::poll: done if a guard said so; otherwise the Send
\* future puts the token in, fails (which is ignored) if the Parker is
\* gone, or is pending while the channel is full
UnparkPoll(u) ==
    /\ parker.unpark[u] \in {"created", "completed", "blocked"}
    /\ IF parker.unpark[u] = "completed" \/ ~parker.alive
       THEN /\ parker' = [parker EXCEPT !.unpark[u] = "idle", !.unparkWoken[u] = FALSE]
            /\ ghost' = [ghost EXCEPT !.last = ParkerLast(u, "ready", parker.chan)]
       ELSE IF parker.chan < ParkerChannelCap
       THEN /\ parker' = [parker EXCEPT !.chan = @ + 1, !.unpark[u] = "idle",
                                        !.unparkWoken[u] = FALSE,
                                        !.parkWoken = @ \/ parker.park = "pending"]
            /\ ghost' = [ghost EXCEPT !.last = ParkerLast(u, "ready", parker.chan + 1),
                                      !.deposited = TRUE]
       ELSE /\ parker' = [parker EXCEPT !.unpark[u] = "blocked", !.unparkWoken[u] = FALSE]
            /\ ghost' = [ghost EXCEPT !.last = ParkerLast(u, "pending", parker.chan)]
    /\ UNCHANGED <<now, stream, waker, last, out, debounce, throttle, future, ftimeout,
                   stimeout, intervalStream, fdelay, sdelay, park, buffer>>

\* an Unparker is dropped; the last one closes the channel and wakes the
\* pending Park
UnparkerDrop(u) ==
    /\ parker.unparkers[u]
    /\ parker.unpark[u] = "idle"
    /\ parker' = [parker EXCEPT
                    !.unparkers[u] = FALSE,
                    !.parkWoken = @ \/ (parker.park = "pending" /\
                                        \A o \in Unparkers \ {u} : ~parker.unparkers[o])]
    /\ UNCHANGED <<now, stream, waker, last, out, debounce, throttle, future, ftimeout,
                   stimeout, intervalStream, fdelay, sdelay, park, ghost, buffer>>

\* the Parker is dropped: the channel is closed and blocked senders woken
ParkerDrop ==
    /\ parker.alive
    /\ parker.park = "idle"
    /\ parker' = [parker EXCEPT !.alive = FALSE, !.unparkWoken = WakeBlocked]
    /\ UNCHANGED <<now, stream, waker, last, out, debounce, throttle, future, ftimeout,
                   stimeout, intervalStream, fdelay, sdelay, park, ghost, buffer>>

ParkerInit ==
    /\ now = 0
    /\ buffer = Unused
    /\ waker = WakerInit
    /\ last = LastInit
    /\ out = <<>>
    /\ parker = ParkerNew
    /\ ghost = [last |-> [op |-> "none", res |-> "pending", token |-> 0, open |-> TRUE,
                          alive |-> TRUE, after |-> 0,
                          clean |-> [u \in Unparkers |-> FALSE]],
                consumed |-> FALSE, deposited |-> FALSE,
                clean |-> [u \in Unparkers |-> FALSE]]
    /\ stream = Unused
    /\ debounce = Unused
    /\ throttle = Unused
    /\ future = Unused
    /\ ftimeout = Unused
    /\ stimeout = Unused
    /\ intervalStream = Unused
    /\ fdelay = Unused
    /\ sdelay = Unused
    /\ park = Unused

\* the tasks run in any order and may poll spuriously
ParkerNext ==
    \/ ParkerPark
    \/ ParkPollRecv
    \/ ParkerDrop
    \/ \E u \in Unparkers : UnparkerUnpark(u) \/ UnparkPoll(u) \/ UnparkerDrop(u)

\* a future that has just been made, or that has been woken, is polled
\* eventually
SpecParker ==
    /\ ParkerInit
    /\ [][ParkerNext]_vars
    /\ WF_vars((parker.park = "created" \/ parker.parkWoken) /\ ParkPollRecv)
    /\ \A u \in Unparkers :
          WF_vars((parker.unpark[u] \in {"created", "completed"} \/ parker.unparkWoken[u])
                  /\ UnparkPoll(u))

----------------------------------------------------------------------------
(* Claims about parker *)

\* C18: the token is initially absent; an unpark() that completes with no
\* token consumed since it was called leaves the token present; a park()
\* polled with the token present returns at once and consumes it, so that a
\* park() polled with no token put in since (and an Unparker alive)
\* suspends; at most one token is ever pending.
C18_ParkerToken ==
    /\ parker.chan \in 0..1
    /\ (~ghost.deposited) => parker.chan = 0
    /\ (ghost.last.op = "park" /\ ghost.last.token = 1) =>
          (ghost.last.res = "ready" /\ ghost.last.after = 0)
    /\ (ghost.last.op = "park" /\ ghost.last.token = 0 /\ ghost.last.open) =>
          ghost.last.res = "pending"
    /\ \A u \in Unparkers :
          (ghost.last.op = u /\ ghost.last.res = "ready" /\ ghost.last.alive
             /\ ghost.last.clean[u]) => ghost.last.after = 1

C18_Witness ==
    /\ ghost.consumed
    /\ ghost.last.op = "park"
    /\ ghost.last.res = "pending"
    /\ ghost.last.token = 0
    /\ parker.chan = 0
    /\ \A u \in Unparkers : parker.unparkers[u] /\ parker.unpark[u] = "idle"

\* C19: with every Unparker dropped, a park() completes although no token
\* was sent, whether it is polled afterwards or was pending already; with
\* the Parker dropped, an unpark() completes.
C19_ParkerNoHang ==
    /\ []((ghost.last.op = "park" /\ ~ghost.last.open) => ghost.last.res = "ready")
    /\ []((ghost.last.op \in Unparkers /\ ~ghost.last.alive) => ghost.last.res = "ready")
    /\ (parker.park = "pending" /\ ~ParkerOpen) ~> (parker.park = "idle")
    /\ \A u \in Unparkers :
          (parker.unpark[u] = "blocked" /\ ~parker.alive) ~> (parker.unpark[u] = "idle")

C19_Witness ==
    /\ ~ghost.deposited
    /\ ~ParkerOpen
    /\ ghost.last.op = "park"
    /\ ghost.last.res = "ready"
    /\ ~ghost.last.open
    /\ parker.park = "idle"

----------------------------------------------------------------------------
(* Claims about the emissions of Debounce *)

\* the emissions so far are no more than the items taken from the source,
\* and no item is emitted after a newer one
EmissionsBounded ==
    /\ Len(Items) <= stream.taken
    /\ \A i \in 1..Len(Items) : \A j \in (i+1)..Len(Items) : Items[i] < Items[j]

\* C20: at every point of every run Debounce has emitted at most as many
\* items as it has taken from the source, and each emitted value is the most
\* recent item taken from the source at the moment of its emission.
C20_DebounceEmission ==
    /\ []EmissionsBounded
    /\ [][Len(Items') > Len(Items) => Items'[Len(Items')] = stream'.taken]_vars

C20_Witness ==
    /\ Items = <<1, 3>>
    /\ stream.taken = 3
    /\ debounce.boundary >= 1
    /\ ~stream.closed

----------------------------------------------------------------------------
(* Debounce and Throttle side by side: the end of either stream            *)

CompletedInit == DebounceInit \/ ThrottleInit

\* whichever combinator the run was started with is polled at will
CompletedNext ==
    \/ debounce # Unused /\ DebouncePollNext
    \/ throttle # Unused /\ ThrottlePollNext
    \/ Arrive
    \/ Close
    \/ ThrottleTick

SpecCompleted == CompletedInit /\ [][CompletedNext]_vars

\* C21: once Debounce or Throttle has reported exhaustion it never again
\* yields an item or not-ready; any further poll is the fatal assertion and
\* polls neither the source nor the timer.
C21_CompletedAbsorbing ==
    /\ \A i \in 1..Len(out) :
          out[i].kind = "none" => \A j \in (i+1)..Len(out) : out[j].kind = "panic"
    /\ Reported => \/ last.res = ReadyNone /\ out[Len(out)].kind = "none"
                   \/ last.res = Panic /\ last.polled = {}
    /\ last.res = Panic => Reported

C21_Witness ==
    /\ throttle # Unused
    /\ Len(Items) >= 1
    /\ out[Len(out)].kind = "panic"
    /\ out[Len(out) - 1].kind = "none"
    /\ throttle.state.tag = "AllDone"

----------------------------------------------------------------------------
(* Buffer  (StreamExt::buffer, src/src/stream/stream_ext.rs; the struct    *)
(* follows the design's section on Buffer)                                 *)

\* Buffer::new(stream, interval.into_stream())
BufferNew(interval) == [interval |-> interval, slot |-> <<>>, state |-> "Streaming"]

RECURSIVE BufferDrainLast(_, _)
\* as BufferDrain, but a new item replaces the batch (as Sample's slot)
BufferDrainLast(s, slot) ==
    LET r == StreamPollNext(s) IN
    IF r.kind = "item"
    THEN BufferDrainLast(StreamAfterPoll(s), <<r.v>>)
    ELSE [stream |-> StreamAfterPoll(s), slot |-> slot, done |-> r.kind = "none"]

RECURSIVE BufferDrain(_, _)
\* every item the source has ready is pushed onto the batch, in order
BufferDrain(s, slot) ==
    LET r == StreamPollNext(s) IN
    IF r.kind = "item"
    THEN BufferDrain(StreamAfterPoll(s), Append(slot, r.v))
    ELSE [stream |-> StreamAfterPoll(s), slot |-> slot, done |-> r.kind = "none"]

\* the batches the Buffer has emitted, joined in order of emission
RECURSIVE Concat(_)
Concat(batches) ==
    IF batches = <<>> THEN <<>> ELSE Head(batches) \o Concat(Tail(batches))

\* Buffer while its source has not been seen to end, and while the last
\* batch waits for its tick: on a tick of the interval the batch is
\* emitted (empty or not) and a new one is started
BufferStreaming ==
    LET d == IF buffer.state = "Streaming"
             THEN BufferDrain(stream, buffer.slot)
             ELSE [stream |-> stream, slot |-> buffer.slot, done |-> TRUE]
        tick == IntervalReady(buffer.interval)
        iv == IntervalAfterPoll(buffer.interval)
    IN
    /\ stream' = d.stream
    /\ buffer' = [interval |-> iv,
                  slot |-> IF tick THEN <<>> ELSE d.slot,
                  state |-> IF ~d.done THEN "Streaming"
                            ELSE IF tick THEN "SendingNone" ELSE "StreamDone"]
    /\ waker' = [woken |-> tick /\ d.done,
                 inner |-> ~d.done,
                 timers |-> IF tick
                            THEN waker.timers \ {buffer.interval.delay}
                            ELSE waker.timers \cup {buffer.interval.delay}]
    /\ ghost' = [ticks |-> IF tick THEN ghost.ticks + 1 ELSE ghost.ticks,
                 tick |-> tick]
    /\ Return(IF tick THEN ReadySome(d.slot) ELSE Pending,
              IF buffer.state = "Streaming" THEN {"stream", "interval"} ELSE {"interval"})

\* Buffer::poll_next
BufferPollNext ==
    /\ last.res.kind # "panic"
    /\ Len(out) < MaxOut
    /\ CASE buffer.state \in {"Streaming", "StreamDone"} -> BufferStreaming
         [] buffer.state = "SendingNone" ->
              /\ buffer' = [buffer EXCEPT !.state = "AllDone"]
              /\ waker' = [waker EXCEPT !.woken = FALSE]
              /\ ghost' = [ghost EXCEPT !.tick = FALSE]
              /\ Return(ReadyNone, {})
              /\ UNCHANGED stream
         [] buffer.state = "AllDone" ->
              /\ ghost' = [ghost EXCEPT !.tick = FALSE]
              /\ Return(Panic, {})
              /\ UNCHANGED <<buffer, stream, waker>>
    /\ UNCHANGED <<now, debounce, throttle, future, ftimeout, stimeout,
                   intervalStream, fdelay, sdelay, park, parker>>

BufferInit ==
    /\ now = 0
    /\ stream = StreamInit
    /\ waker = WakerInit
    /\ last = LastInit
    /\ out = <<>>
    /\ \E period \in Durations : buffer = BufferNew(IntervalNew(period))
    /\ ghost = [ticks |-> 0, tick |-> FALSE]
    /\ debounce = Unused
    /\ throttle = Unused
    /\ future = Unused
    /\ ftimeout = Unused
    /\ stimeout = Unused
    /\ intervalStream = Unused
    /\ fdelay = Unused
    /\ sdelay = Unused
    /\ park = Unused
    /\ parker = Unused

BufferTick == now < MaxTime /\ Advance

\* the consumer polls whenever it likes (late and spurious polls included)
BufferNext == BufferPollNext \/ Arrive \/ Close \/ BufferTick

SpecBuffer == BufferInit /\ [][BufferNext]_vars

----------------------------------------------------------------------------
(* Claims about Buffer *)

\* C22: Buffer never loses items.  The batches emitted so far, joined in
\* order, followed by the batch being accumulated, are exactly the items
\* the source has handed out, in the source's order and each once; when
\* Buffer has reported exhaustion the emitted batches alone are all the
\* items the source produced; and every poll that sees the interval tick
\* emits a batch, empty or not, so there are as many batches as ticks.
C22_BufferNoLoss ==
    /\ Concat(Items) \o buffer.slot = [i \in 1..stream.taken |-> i]
    /\ Reported => Concat(Items) = [i \in 1..Produced |-> i]
    /\ ghost.tick => last.res.kind = "item"
    /\ Len(Items) = ghost.ticks

\* all three items came out, one batch is empty and one holds two items
C22_Witness ==
    /\ Reported
    /\ Produced = MaxItems
    /\ \E i \in 1..Len(Items) : Items[i] = <<>>
    /\ \E i \in 1..Len(Items) : Len(Items[i]) = 2

----------------------------------------------------------------------------
\* C23: the future Delay and DelayUntil poll their deadline to resolution
\* once: a poll made after the deadline has resolved, while the wrapped
\* future has not yet returned its value, polls the wrapped future alone and
\* returns what it returned.
C23_DeadlinePolledOnce ==
    [][(/\ ghost.source = "future"
        /\ ghost.deadlineSeen
        /\ ~DelayedFutureDone
        /\ (FutureDelayPoll \/ FutureDelayUntilPoll))
       => /\ last'.polled = <<"future">>
          /\ last'.res \in {Pending, ReadyValue(future.val)}]_vars

----------------------------------------------------------------------------
\* the gate of the stream Delay / DelayUntil has been opened by an earlier
\* poll, or the poll about to be made finds the deadline reached
StreamGateOpen == ghost.sourcePolled \/ DeadlineReached

\* C24: the stream Delay and DelayUntil are transparent once the deadline
\* has resolved: every poll from the one that sees the deadline resolved
\* returns what the wrapped stream's poll_next returns to it, a poll after
\* that one polls the stream alone, and the timer is not armed again.
C24_StreamDelayTransparent ==
    [][(/\ ghost.source = "stream"
        /\ StreamGateOpen
        /\ (StreamDelayPollNext \/ StreamDelayUntilPollNext))
       => /\ last'.res = StreamPollNext(stream)
          /\ stream' = StreamAfterPoll(stream)
          /\ ghost.sourcePolled => last'.polled = <<"stream">>
          /\ sdelay.kind = "Delay" => sdelay'.timer = sdelay.timer
          /\ sdelay.kind = "DelayUntil" => sdelay'.delay = sdelay.delay]_vars

\* an item that arrived after the gate opened was yielded the moment it
\* arrived, by a poll of the stream alone
C24_Witness ==
    /\ ghost.source = "stream"
    /\ ghost.dur >= 1
    /\ Len(out) >= 2
    /\ out[2].kind = "item"
    /\ stream.times[2] > ghost.created + ghost.dur
    /\ out[2].t = stream.times[2]
    /\ last.polled = <<"stream">>
    /\ last.res = ReadySome(2)

----------------------------------------------------------------------------
\* a poll of the Debounce that took an item from the source
DebounceTook == DebouncePollNext /\ stream'.taken > stream.taken

\* a poll of the Debounce that emitted an item
DebounceEmitted == DebouncePollNext /\ Len(Items') > Len(Items)

\* C25 as claimed: the poll that takes an item from the source never emits
\* it, whatever the quiet period, zero included: it stores the item, re-arms
\* the timer from now and reports not-ready.
C25_NeverImmediate ==
    [][DebounceTook =>
          /\ last'.res = Pending
          /\ debounce'.slot = stream'.taken
          /\ debounce'.timer = now + debounce.boundary]_vars

\* C25 as amended: the poll that takes an item emits it only when the timer
\* it has just re-armed is already due, which is the case of a zero quiet
\* period.  Otherwise it stores the item, re-arms the timer from now and
\* reports not-ready; the timer is armed by no other poll, and the item is
\* emitted by a later poll that takes nothing and finds the source exhausted
\* or the timer due.
C25_ImmediateOnlyIfDue ==
    /\ [][DebounceTook =>
            /\ debounce'.timer = now + debounce.boundary
            /\ IF TimerReady(TimerAfter(debounce.boundary))
               THEN last'.res = ReadySome(stream'.taken) /\ debounce'.slot = None
               ELSE last'.res = Pending /\ debounce'.slot = stream'.taken]_vars
    /\ [][debounce'.timer # debounce.timer => DebounceTook]_vars
    /\ [][(DebounceEmitted /\ ~TimerReady(TimerAfter(debounce.boundary))) =>
            /\ stream'.taken = stream.taken
            /\ last'.res = ReadySome(debounce.slot)
            /\ StreamPollNext(stream) = ReadyNone \/ TimerReady(debounce.timer)]_vars

\* an item was stored at its arrival and emitted a full quiet period
\* later, by the timer and not by the end of the source
C25_Witness ==
    /\ debounce.boundary = MaxDur
    /\ Len(out) = 1
    /\ out[1].kind = "item"
    /\ out[1].t = stream.times[out[1].v] + debounce.boundary
    /\ debounce.timer = out[1].t
    /\ ~stream.closed

----------------------------------------------------------------------------
\* a poll of the Debounce in which the source reports exhaustion
DebounceSawNone ==
    /\ DebouncePollNext
    /\ ~debounce.exhausted
    /\ ~debounce.done
    /\ StreamPollNext(stream) = ReadyNone

\* C26: when the source reports exhaustion while the slot holds a value,
\* that poll emits the value and the next poll reports exhaustion without
\* polling the source; with an empty slot that same poll reports
\* exhaustion.  No value is emitted twice, exhaustion is reported once, and
\* once the source has ended it is reported eventually.
C26_DebounceFlush ==
    /\ [][DebounceSawNone =>
            IF debounce.slot # None
            THEN /\ last'.res = ReadySome(debounce.slot)
                 /\ debounce'.slot = None
                 /\ debounce'.exhausted /\ ~debounce'.done
            ELSE last'.res = ReadyNone]_vars
    /\ [][(DebouncePollNext /\ debounce.exhausted /\ ~debounce.done) =>
            /\ last'.res = ReadyNone
            /\ last'.polled = {}
            /\ stream' = stream]_vars
    /\ [](\A i, j \in 1..Len(Items) : i # j => Items[i] # Items[j])
    /\ [](Cardinality({i \in 1..Len(out) : out[i].kind = "none"}) <= 1)
    /\ (stream.closed ~> Reported)

\* the last item was flushed by the end of the source, before its quiet
\* period was over, and exhaustion was reported by the poll after
C26_Witness ==
    /\ Reported
    /\ Len(out) >= 2
    /\ out[Len(out) - 1].kind = "item"
    /\ out[Len(out) - 1].v = Produced
    /\ out[Len(out) - 1].t < stream.times[Produced] + debounce.boundary
    /\ out[Len(out)].kind = "none"
    /\ last.polled = {}

----------------------------------------------------------------------------
\* a poll of the Throttle in which the source reports exhaustion
ThrottleSawNone ==
    /\ ThrottlePollNext
    /\ throttle.state.tag = "Streaming"
    /\ stream.closed

\* the item such a poll accepts: the first one it takes, if the window's
\* budget is not spent
ThrottleAccepted ==
    IF stream.taken < Len(stream.times) /\ throttle.state.count < throttle.budget
    THEN ReadySome(stream.taken + 1)
    ELSE Pending

\* C27: the poll in which the source reports exhaustion delivers the item
\* accepted in that poll, if any; the next poll reports exhaustion and
\* polls neither the source nor the interval; exhaustion is reported once
\* and no item is yielded after it.
C27_ThrottleEndOrdering ==
    /\ [][ThrottleSawNone =>
            /\ last'.res = ThrottleAccepted
            /\ throttle'.state.tag = "StreamDone"
            /\ stream'.ended]_vars
    /\ [][(ThrottlePollNext /\ throttle.state.tag = "StreamDone") =>
            /\ last'.res = ReadyNone
            /\ last'.polled = {}
            /\ stream' = stream
            /\ throttle'.interval = throttle.interval]_vars
    /\ [](Cardinality({i \in 1..Len(out) : out[i].kind = "none"}) <= 1)
    /\ [](\A i \in 1..Len(out) :
            out[i].kind = "none" => \A j \in (i+1)..Len(out) : out[j].kind # "item")

\* the last item was accepted by the poll that saw the source end, and
\* exhaustion was reported by the poll after
C27_Witness ==
    /\ throttle # Unused
    /\ Len(out) >= 3
    /\ out[Len(out) - 1].kind = "item"
    /\ out[Len(out) - 1].v = Produced
    /\ out[Len(out) - 1].t >= stream.endAt
    /\ stream.times[Produced] <= stream.endAt
    /\ out[Len(out)].kind = "none"
    /\ last.polled = {}

----------------------------------------------------------------------------
(* Throttle over an interval stream that is not a timer: it ticks when     *)
(* its owner makes it tick, and may never tick again.  The task is polled  *)
(* only when woken.                                                        *)

ThrottleExtInit ==
    /\ now = 0
    /\ buffer = Unused
    /\ stream = StreamInit
    /\ waker = WakerInit
    /\ last = LastInit
    /\ out = <<>>
    /\ throttle = ThrottleNew(ExternalInterval)
    /\ ghost = [ticks |-> 0, taken |-> <<>>]
    /\ debounce = Unused
    /\ future = Unused
    /\ ftimeout = Unused
    /\ stimeout = Unused
    /\ intervalStream = Unused
    /\ fdelay = Unused
    /\ sdelay = Unused
    /\ park = Unused
    /\ parker = Unused

\* the interval stream gets a tick ready and wakes the task waiting for it
ThrottleExtTick ==
    /\ ghost.ticks + throttle.interval.ticks < MaxOut
    /\ throttle.interval.ticks < MaxDur
    /\ ~throttle.interval.closed
    /\ throttle' = [throttle EXCEPT !.interval.ticks = @ + 1,
                                    !.interval.waiting = FALSE]
    /\ waker' = IF throttle.interval.waiting
                THEN [waker EXCEPT !.woken = TRUE]
                ELSE waker
    /\ UNCHANGED <<now, stream, last, out, ghost, debounce, future, ftimeout, stimeout,
                   intervalStream, fdelay, sdelay, park, parker, buffer>>

ThrottleExtPoll == waker.woken /\ ThrottlePollNext

ThrottleExtNext ==
    \/ ThrottleExtPoll
    \/ Arrive
    \/ Close
    \/ ThrottleExtTick
    \/ ThrottleWakeTick

\* a woken task is polled eventually; nothing obliges the interval to tick
SpecThrottleExt ==
    /\ ThrottleExtInit
    /\ [][ThrottleExtNext]_vars
    /\ WF_vars(ThrottleExtPoll)

\* C28: once the source has reported exhaustion to the Throttle, the
\* Throttle reports exhaustion eventually when it is polled only on
\* wake-ups, also when the poll that saw the exhaustion accepted no item
\* and the interval does not tick again.
C28_ThrottleEndLiveness ==
    (throttle.state.tag = "StreamDone") ~> Reported

----------------------------------------------------------------------------
\* the items emitted among those consumed in window w (the span between
\* the w-th and the next tick the Throttle has observed)
EmittedInWindow(w) ==
    {i \in 1..Len(Items) : ghost.taken[Items[i]].w = w}

\* C29: the per-window counter never exceeds the budget of 1 and goes back
\* to 0 only in a poll that sees the interval tick; of the items consumed
\* between two consecutive observed ticks at most one is emitted, and it
\* is one of them; a poll emits at most one item however many it drains.
C29_ThrottleBudget ==
    /\ [](throttle.budget = 1 /\ throttle.state.count <= throttle.budget)
    /\ [][(throttle'.state.tag = "Streaming" /\ throttle'.state.count < throttle.state.count)
          => ThrottlePollNext /\ ThrottleIntervalReady(throttle.interval)]_vars
    /\ [](\A w \in 0..ghost.ticks : Cardinality(EmittedInWindow(w)) <= throttle.budget)
    /\ [](\A i \in 1..Len(Items) : Items[i] \in 1..Len(ghost.taken))
    /\ [][Len(out') <= Len(out) + 1]_vars

\* one poll drained three items and emitted the first of them
C29_Witness ==
    /\ throttle # Unused
    /\ Len(ghost.taken) = MaxItems
    /\ \A i \in 1..Len(ghost.taken) : ghost.taken[i].w = 0
    /\ stream.times[1] = stream.times[MaxItems]
    /\ last.res = ReadySome(1)
    /\ Items = <<1>>
    /\ throttle.state = [tag |-> "Streaming", count |-> 1]

----------------------------------------------------------------------------
\* C30: a stream TimeoutAt gives each item its own budget: a TimedOut that
\* directly follows a yielded item is reported no sooner than one budget
\* (the span from creation to the deadline) after that item, and not just
\* because the deadline given at creation lies in the past.
C30_TimeoutAtFreshBudget ==
    (/\ stimeout.kind = "TimeoutAt"
     /\ Len(out) >= 2
     /\ out[Len(out)].kind = "err"
     /\ out[Len(out) - 1].kind = "item")
    => out[Len(out)].t >= out[Len(out) - 1].t + ghost.dur

----------------------------------------------------------------------------
\* C31: the end of the stream is not a timeout: a poll of the stream
\* Timeout / TimeoutAt in which the source reports exhaustion reports
\* exhaustion itself, also when the deadline has passed by then.
C31_EndIsNotTimeout ==
    (stimeout # Unused /\ ghost.inner = ReadyNone) =>
        /\ last.res = ReadyNone
        /\ out[Len(out)].kind = "none"
        /\ last.polled = {"stream"}

\* the source ended after the deadline had passed, unseen by any poll,
\* and the first poll reported exhaustion
C31_Witness ==
    /\ stimeout # Unused
    /\ ghost.dur >= 1
    /\ stream.endAt >= ghost.created + ghost.dur
    /\ out = <<[kind |-> "none", v |-> None, t |-> stream.endAt]>>
    /\ ghost.inner = ReadyNone

----------------------------------------------------------------------------
(* The five timeouts together: the three future timeouts and the two       *)
(* stream timeouts, each polled by its consumer at any moment.             *)

TimeoutsInit == FutureTimeoutInit \/ StreamTimeoutInit

TimeoutsNext ==
    \/ ftimeout # Unused /\ TimeoutPoll
    \/ ftimeout # Unused /\ TimeoutAtPoll
    \/ ftimeout # Unused /\ CrateTimeoutPoll
    \/ ftimeout # Unused /\ Resolve
    \/ stimeout # Unused /\ StreamTimeoutPollNext
    \/ stimeout # Unused /\ Arrive
    \/ stimeout # Unused /\ Close
    \/ StreamTimeoutTick

SpecTimeouts == TimeoutsInit /\ [][TimeoutsNext]_vars

\* a poll of a future timeout that is still live, made when the wrapped
\* future has its value ready
FutureTimeoutPolledReady ==
    /\ ftimeout # Unused
    /\ TimeoutPoll \/ TimeoutAtPoll \/ CrateTimeoutPoll
    /\ future.ready
    /\ ~FutureDone
    /\ ftimeout.kind = "Timeout" => ~ftimeout.completed

\* a poll of a stream timeout made when the source has an item ready
StreamTimeoutPolledReady ==
    /\ stimeout # Unused
    /\ StreamTimeoutPollNext
    /\ StreamPollNext(stream).kind = "item"

\* C32: success wins a tie: a poll of any timeout (future or stream,
\* duration or absolute deadline) that finds the wrapped future or stream
\* ready delivers its value and does not consult the deadline, whether or
\* not the deadline has passed.
C32_SuccessWinsTie ==
    /\ [][FutureTimeoutPolledReady =>
            /\ last'.res = ReadyOk(future.val)
            /\ last'.polled = {"future"}]_vars
    /\ [][StreamTimeoutPolledReady =>
            /\ last'.res = StreamPollNext(stream)
            /\ last'.polled = {"stream"}]_vars

\* the first poll, made at the very instant of the deadline, found the
\* future resolved and delivered its value
C32_Witness ==
    /\ ftimeout # Unused
    /\ ftimeout.kind = "TimeoutAt"
    /\ ghost.dur >= 1
    /\ out = <<[kind |-> "ok", v |-> future.val, t |-> ghost.created + ghost.dur]>>
    /\ last.polled = {"future"}

----------------------------------------------------------------------------
----------------------------------------------------------------------------
\* the poll just made polled the wrapped future
ParkPolledFuture == \E i \in 1..Len(last'.polled) : last'.polled[i] = "future"

\* the token a poll of the receiver would return
ParkNextToken == ReceiverPollNext(park.receiver)

\* the token the poll after that one would return
ParkSecondToken == ReceiverPollNext(ReceiverAfterPoll(park.receiver))

\* C34: a poll of a suspended Park polls the wrapped future only if that
\* poll first receives a resume token or sees the channel closed, and
\* otherwise leaves it suspended; a poll that receives a pause token in the
\* active state (from the start, or just resumed) does not poll the
\* wrapped future and suspends the wrapper.
C34_ParkSuspensionComplete ==
    /\ [][(ParkPoll /\ park.state = "Suspended" /\ ParkPolledFuture) =>
            ParkNextToken \in {"Unpark", "None"}]_vars
    /\ [][(ParkPoll /\ park.state = "Suspended" /\ ParkNextToken \in {"Pending", "Park"}) =>
            /\ last'.polled = <<"receiver">>
            /\ last'.res = Pending
            /\ park'.state = "Suspended"]_vars
    /\ [][(ParkPoll /\ \/ park.state = "Active" /\ ParkNextToken = "Park"
                       \/ /\ park.state = "Suspended"
                          /\ ParkNextToken = "Unpark"
                          /\ ParkSecondToken = "Park") =>
            /\ ~ParkPolledFuture
            /\ last'.res = Pending
            /\ park'.state = "Suspended"]_vars

\* one poll of the suspended wrapper received the resume token and, now
\* active, the pause token: the resolved future was not polled
C34_Witness ==
    /\ park # Unused
    /\ ghost.sent = <<"Unpark", "Park">>
    /\ park.receiver.queue = <<>>
    /\ park.state = "Suspended"
    /\ last.polled = <<"receiver", "receiver">>
    /\ future.ready
    /\ out = <<>>

----------------------------------------------------------------------------
\* the wrapper has received a resume token or seen the channel closed
ParkReleased ==
    \/ ghost.sawNone
    \/ \E i \in 1..(Len(ghost.sent) - Len(park.receiver.queue)) : ghost.sent[i] = "Unpark"

\* C39: a Park starts suspended: it leaves the suspended state, and polls
\* the wrapped future, only after it has received a resume token or seen
\* the channel closed; while the channel is open and no token has been
\* sent, the wrapped future is not polled and nothing is returned.
C39_ParkStartsSuspended ==
    /\ park.state # "Suspended" => ParkReleased
    /\ (\E i \in 1..Len(last.polled) : last.polled[i] = "future") => ParkReleased
    /\ out # <<>> => ParkReleased
    /\ (ghost.sent = <<>> /\ ~park.receiver.closed) =>
          /\ park.state = "Suspended"
          /\ last.polled \in {<<>>, <<"receiver">>}

\* the wrapped future has resolved, the wrapper has been polled, and with
\* no token sent on the open channel it has not polled the future
C39_Witness ==
    /\ park # Unused
    /\ future.ready
    /\ ghost.sent = <<>>
    /\ ~park.receiver.closed
    /\ last.polled = <<"receiver">>
    /\ waker.recv
    /\ park.state = "Suspended"

----------------------------------------------------------------------------
\* C35: unpark() neither queues up nor blocks: in every interleaving of
\* the Unparkers' unpark() calls with park() calls at most one token is
\* pending and no Unpark future is left suspended on the full channel.
C35_UnparkNeverBlocks ==
    /\ parker.chan <= 1
    /\ \A u \in Unparkers : parker.unpark[u] # "blocked"

----------------------------------------------------------------------------
\* the task's waker is held by a child of the Throttle (the source, a
\* timer, the interval stream) or has been woken
ThrottleWakerHeld ==
    \/ waker.woken
    \/ waker.inner
    \/ waker.timers # {}
    \/ IsExternal(throttle.interval) /\ throttle.interval.waiting

\* a poll of the Throttle made now would return a result: the final
\* Ready(None), or an item the window's budget admits
ThrottleCanProgress ==
    \/ throttle.state.tag = "StreamDone"
    \/ /\ throttle.state.tag = "Streaming"
       /\ stream.taken < Len(stream.times)
       /\ throttle.state.count < throttle.budget

\* a poll that returned not-ready left the waker with a child that was not
\* ready, or woke it
PendingHoldsWaker == (last.res = Pending /\ last.polled # {}) => ThrottleWakerHeld

\* C36: no wake-up is lost: a poll that returned not-ready left the waker
\* with a child that was not ready, or woke it; hence, polled only on
\* wake-ups, the combinator is polled again whenever it can make progress.
\* Stated here for the Throttle.
C36_NoLostWakeup ==
    /\ []PendingHoldsWaker
    /\ ((last.res = Pending /\ ThrottleCanProgress) ~> waker.woken)


----------------------------------------------------------------------------
(* The wrapped source after its end *)

\* a poll of whichever combinator the run was started with
CompletedPoll ==
    \/ debounce # Unused /\ DebouncePollNext
    \/ throttle # Unused /\ ThrottlePollNext

\* C37: in any sequence of polls, Debounce and Throttle never poll the
\* wrapped source again after it has reported exhaustion; the polls made
\* after that leave the source alone.
C37_SourceNotRepolled ==
    /\ []~stream.misuse
    /\ [][(stream.ended /\ CompletedPoll)
            => (stream' = stream /\ "stream" \notin last'.polled)]_vars

C37_Witness ==
    /\ stream.ended
    /\ ~stream.misuse
    /\ Len(out) >= 3
    /\ out[Len(out)].kind = "panic"
    /\ out[Len(out) - 1].kind = "none"
    /\ out[Len(out) - 2].kind = "item"
    /\ debounce # Unused


----------------------------------------------------------------------------
(* Throttle over an interval stream that ends: `source.throttle(i)` with   *)
(* `i` any finite stream.  The task is polled only when woken.             *)

\* the interval stream ends (it reports None once its ticks are drained)
\* and wakes the task waiting for it
ThrottleExtEnd ==
    /\ ~throttle.interval.closed
    /\ throttle' = [throttle EXCEPT !.interval.closed = TRUE,
                                    !.interval.waiting = FALSE]
    /\ waker' = IF throttle.interval.waiting
                THEN [waker EXCEPT !.woken = TRUE]
                ELSE waker
    /\ UNCHANGED <<now, stream, last, out, ghost, debounce, future, ftimeout, stimeout,
                   intervalStream, fdelay, sdelay, park, parker, buffer>>

ThrottleFiniteNext ==
    \/ ThrottleExtPoll
    \/ Arrive
    \/ Close
    \/ ThrottleExtTick
    \/ ThrottleExtEnd
    \/ ThrottleWakeTick

SpecThrottleFinite == ThrottleExtInit /\ [][ThrottleFiniteNext]_vars

\* C38: a Throttle driven by an interval stream that may end never polls
\* that interval stream again after it has reported exhaustion.
C38_IntervalNotRepolled == ~throttle.interval.misuse


----------------------------------------------------------------------------
(* TimeoutOnce  (src/src/stream/timeout_once.rs): a stream cut off by a    *)
(* deadline future.  The struct is kept in `stimeout`; the deadline is a   *)
(* future that resolves at an instant.                                     *)

\* TimeoutOnce::new(stream, deadline)
TimeoutOnceNew(deadline) == [kind |-> "TimeoutOnce", deadline |-> TimerAt(deadline)]

\* as TimeoutOncePollNext, but the source is polled before the deadline and
\* an item it has ready is passed on
TimeoutOncePollNextSourceFirst ==
    /\ ~Reported
    /\ Len(out) < MaxOut
    /\ LET r == StreamPollNext(stream)
           due == TimerReady(stimeout.deadline) IN
       IF due /\ r.kind # "item"
       THEN /\ stream' = StreamAfterPoll(stream)
            /\ waker' = [woken |-> FALSE, inner |-> r.kind = "pending",
                         timers |-> waker.timers \ {stimeout.deadline}]
            /\ ghost' = [polled |-> <<"stream", "deadline">>, due |-> TRUE,
                         ready |-> FALSE, inner |-> r]
            /\ Return(ReadyNone, {"stream", "deadline"})
       ELSE /\ stream' = StreamAfterPoll(stream)
            /\ waker' = [woken |-> r.kind = "item",
                         inner |-> r.kind = "pending",
                         timers |-> IF r.kind = "item" THEN waker.timers
                                    ELSE waker.timers \cup {stimeout.deadline}]
            /\ ghost' = [polled |-> IF r.kind = "item" THEN <<"stream">>
                                    ELSE <<"stream", "deadline">>,
                         due |-> due,
                         ready |-> r.kind = "item", inner |-> r]
            /\ Return(r, {"stream", "deadline"})
    /\ UNCHANGED <<now, stimeout, future, ftimeout, debounce, throttle,
                   intervalStream, fdelay, sdelay, park, parker, buffer>>

\* TimeoutOnce::poll_next
TimeoutOncePollNext ==
    /\ ~Reported
    /\ Len(out) < MaxOut
    /\ IF TimerReady(stimeout.deadline)
       THEN /\ waker' = [waker EXCEPT !.woken = FALSE,
                                      !.timers = @ \ {stimeout.deadline}]
            /\ ghost' = [polled |-> <<"deadline">>, due |-> TRUE,
                         ready |-> StreamPollNext(stream).kind = "item",
                         inner |-> NotPolled]
            /\ Return(ReadyNone, {"deadline"})
            /\ UNCHANGED stream
       ELSE LET r == StreamPollNext(stream) IN
            /\ stream' = StreamAfterPoll(stream)
            /\ waker' = [woken |-> r.kind = "item",
                         inner |-> r.kind = "pending",
                         timers |-> waker.timers \cup {stimeout.deadline}]
            /\ ghost' = [polled |-> <<"deadline", "stream">>, due |-> FALSE,
                         ready |-> r.kind = "item", inner |-> r]
            /\ Return(r, {"deadline", "stream"})
    /\ UNCHANGED <<now, stimeout, future, ftimeout, debounce, throttle,
                   intervalStream, fdelay, sdelay, park, parker, buffer>>

TimeoutOnceInit ==
    /\ now = 0
    /\ buffer = Unused
    /\ stream = StreamInit
    /\ waker = WakerInit
    /\ last = LastInit
    /\ out = <<>>
    /\ \E deadline \in Durations : stimeout = TimeoutOnceNew(deadline)
    /\ ghost = [polled |-> <<>>, due |-> FALSE, ready |-> FALSE, inner |-> NotPolled]
    /\ future = Unused
    /\ ftimeout = Unused
    /\ debounce = Unused
    /\ throttle = Unused
    /\ intervalStream = Unused
    /\ fdelay = Unused
    /\ sdelay = Unused
    /\ park = Unused
    /\ parker = Unused

TimeoutOnceTick == now < MaxTime /\ Advance

\* the consumer polls whenever it likes (late and spurious polls included)
TimeoutOnceNext == TimeoutOncePollNext \/ Arrive \/ Close \/ TimeoutOnceTick

SpecTimeoutOnce == TimeoutOnceInit /\ [][TimeoutOnceNext]_vars

\* the most recent poll of the TimeoutOnce polled the deadline first; it
\* returned the source's result when the deadline was pending, and a plain
\* exhaustion, the source left unpolled, when the deadline had resolved
TimeoutOnceDeadlineFirst ==
    ghost.polled # <<>> =>
       /\ ghost.polled[1] = "deadline"
       /\ ~ghost.due => /\ ghost.polled = <<"deadline", "stream">>
                        /\ last.res = ghost.inner
       /\ ghost.due => /\ ghost.polled = <<"deadline">>
                       /\ ghost.inner = NotPolled
                       /\ last.res = ReadyNone
                       /\ out[Len(out)].kind = "none"

\* C40: on every poll TimeoutOnce polls the deadline before the source;
\* until the deadline resolves each poll returns exactly the source's poll
\* result, and once it has resolved TimeoutOnce reports a normal exhaustion,
\* never a TimedOut value, without polling the source, even when the source
\* has an item ready on that poll.
C40_TimeoutOnceDeadlineFirst ==
    /\ []TimeoutOnceDeadlineFirst
    /\ [](\A i \in 1..Len(out) : out[i].kind # "err")
    /\ [][(TimeoutOncePollNext /\ TimerReady(stimeout.deadline))
            => (stream' = stream /\ last'.res = ReadyNone)]_vars

C40_Witness ==
    /\ ghost.due
    /\ ghost.ready
    /\ stream.taken < Len(stream.times)
    /\ last.res = ReadyNone
    /\ Len(Items) >= 1
    /\ out[Len(out)].kind = "none"

============================================================================
